---- MODULE Spec2Model ----
(***************************************************************************)
(* Model of the email validation pipeline of EmailValidationService        *)
(* (src/unnamed/part_007, class at lines 260-1769): quickValidate,         *)
(* checkWithZeroBounce, isKnownValidEmail, validateEmail and               *)
(* saveValidationResult, with the Supabase tables and the ZeroBounce API   *)
(* as nondeterministic collaborators and a millisecond clock for the       *)
(* timers of withTimeout and setTimeout.                                   *)
(***************************************************************************)
EXTENDS Integers, Sequences, FiniteSets, TLC

(***************************************************************************)
(* JavaScript string primitives used by the service.  Strings are TLA+     *)
(* strings; a character is a string of length one.                         *)
(***************************************************************************)
NULL == "<null>"

Char(s, i) == SubSeq(s, i, i)

CharSet(s) == {Char(s, i) : i \in 1..Len(s)}

\* String.prototype.includes
Includes(s, t) == \E i \in 1..(Len(s) - Len(t) + 1) : SubSeq(s, i, i + Len(t) - 1) = t

\* String.prototype.endsWith
EndsWith(s, t) == Len(t) <= Len(s) /\ SubSeq(s, Len(s) - Len(t) + 1, Len(s)) = t

\* String.prototype.lastIndexOf, 1-based; 0 when t does not occur
LastIndexOf(s, t) ==
    LET hits == {i \in 1..(Len(s) - Len(t) + 1) : SubSeq(s, i, i + Len(t) - 1) = t}
    IN  IF hits = {} THEN 0 ELSE CHOOSE i \in hits : \A j \in hits : j <= i

UpperChars == "ABCDEFGHIJKLMNOPQRSTUVWXYZ"
LowerChars == "abcdefghijklmnopqrstuvwxyz"
DigitChars == "0123456789"
\* the characters /\s/ matches among those the inputs use
WhitespaceChars == {" "}

ToLowerChar(c) ==
    IF c \in CharSet(UpperChars)
    THEN Char(LowerChars, CHOOSE i \in 1..Len(UpperChars) : Char(UpperChars, i) = c)
    ELSE c

RECURSIVE ToLowerCase(_)
ToLowerCase(s) ==
    IF s = "" THEN "" ELSE ToLowerChar(Char(s, 1)) \o ToLowerCase(SubSeq(s, 2, Len(s)))

RECURSIVE TrimStart(_)
TrimStart(s) ==
    IF s # "" /\ Char(s, 1) \in WhitespaceChars THEN TrimStart(SubSeq(s, 2, Len(s))) ELSE s

RECURSIVE TrimEnd(_)
TrimEnd(s) ==
    IF s # "" /\ Char(s, Len(s)) \in WhitespaceChars
    THEN TrimEnd(SubSeq(s, 1, Len(s) - 1)) ELSE s

\* String.prototype.trim
Trim(s) == TrimEnd(TrimStart(s))

\* s.replace(/\s/g, '')
RECURSIVE RemoveWhitespace(_)
RemoveWhitespace(s) ==
    IF s = "" THEN ""
    ELSE (IF Char(s, 1) \in WhitespaceChars THEN "" ELSE Char(s, 1))
         \o RemoveWhitespace(SubSeq(s, 2, Len(s)))

\* s.replace(/\./g, '')
RECURSIVE RemoveDots(_)
RemoveDots(s) ==
    IF s = "" THEN ""
    ELSE (IF Char(s, 1) = "." THEN "" ELSE Char(s, 1)) \o RemoveDots(SubSeq(s, 2, Len(s)))

\* String.prototype.split on a one-character separator: a sequence of strings
RECURSIVE Split(_, _)
Split(s, sep) ==
    LET hits == {i \in 1..Len(s) : Char(s, i) = sep}
    IN  IF hits = {} THEN <<s>>
        ELSE LET i == CHOOSE k \in hits : \A j \in hits : k <= j
             IN  <<SubSeq(s, 1, i - 1)>> \o Split(SubSeq(s, i + 1, Len(s)), sep)

\* const [a, b] = s.split('@'): a missing second element is undefined
SplitAt(s) ==
    LET parts == Split(s, "@")
    IN  [localPart |-> parts[1], domain |-> IF Len(parts) >= 2 THEN parts[2] ELSE NULL]

\* email.split('@')[1]
DomainOf(email) == SplitAt(email).domain

(***************************************************************************)
(* isValidEmailFormat: the regular expression of line 1015, clause by      *)
(* clause.                                                                 *)
(***************************************************************************)
AlnumChars == CharSet(UpperChars) \cup CharSet(LowerChars) \cup CharSet(DigitChars)
\* the local-part class of the regex; its backquote cannot be written in a
\* TLA+ string and no input of the model uses it
LocalChars == AlnumChars \cup CharSet(".!#$%&'*+/=?^_{|}~-")
MaxLabelLen == 63

\* one domain label: an alphanumeric, optionally followed by up to 61
\* alphanumerics or hyphens and a closing alphanumeric
IsDomainLabel(l) ==
    /\ Len(l) >= 1
    /\ Len(l) <= MaxLabelLen
    /\ Char(l, 1) \in AlnumChars
    /\ Char(l, Len(l)) \in AlnumChars
    /\ \A i \in 1..Len(l) : Char(l, i) \in AlnumChars \cup {"-"}

isValidEmailFormat(email) ==
    LET parts == Split(email, "@")
    IN  /\ Len(parts) = 2
        /\ Len(parts[1]) >= 1
        /\ \A i \in 1..Len(parts[1]) : Char(parts[1], i) \in LocalChars
        /\ LET labels == Split(parts[2], ".")
           IN  \A k \in 1..Len(labels) : IsDomainLabel(labels[k])

(***************************************************************************)
(* State.                                                                  *)
(***************************************************************************)
VARIABLES
    now,                       \* Date.now(), in ms since the service started
    config,                    \* the constructor's config object
    supabaseEnabled,           \* this.supabaseEnabled
    supabase,                  \* this.supabase is a client (TRUE) or null (FALSE)
    supabaseConnectionStatus,  \* this.supabaseConnectionStatus
    email_validations,         \* rows of table email_validations
    contacts,                  \* ids of the rows of table contacts
    nextId,                    \* next id the database hands out
    frame,                     \* activations of validateEmail, by recursion depth
    sv,                        \* activations of saveValidationResult, by caller
    calls,                     \* top-level calls started so far
    trace,                     \* what the current top-level call has invoked
    saveLog,                   \* the saveValidationResult calls that returned
    overlap,                   \* a saveValidationResult call began before another returned
    norm,                      \* a caller applying correctEmailTypos and quickValidate
    batch,                     \* the activation of validateBatch and of its HTTP handler
    ident,                     \* the clock's reading and the ids generateUmCheckId returned
    clientManager,             \* the usage counters of ClientManagerService, by client
    requests                   \* the activations of the single-address HTTP handler

vars == <<now, config, supabaseEnabled, supabase, supabaseConnectionStatus,
          email_validations, contacts, nextId, frame, sv, calls, trace, saveLog,
          overlap, norm, batch, ident, clientManager, requests>>

(***************************************************************************)
(* The lookup tables of the database (invalid_domains,                     *)
(* common_valid_domains, domain_typos, valid_tlds).  The pipeline only     *)
(* reads them; their contents are a fixture.                               *)
(***************************************************************************)
invalid_domains == {"bad.com"}
common_valid_domains == {"allowlisted.com", "gmail.com"}
domain_typos == [d \in {"gmial.com"} |-> "gmail.com"]
valid_tlds == <<".com.au">>

\* db.ready: the guards every check* method starts with (lines 464-485);
\* db.q: which of the table queries answer without error
DbOf(status, q) == [ready |-> supabaseEnabled /\ supabase /\ status = "connected", q |-> q]

QueryOutcomes ==
    { [typo |-> TRUE,  tld |-> TRUE,  invalid |-> TRUE,  common |-> TRUE],
      [typo |-> FALSE, tld |-> FALSE, invalid |-> FALSE, common |-> FALSE] }

Truthy(s) == s # NULL /\ s # ""

checkInvalidDomain(domain, db) ==
    Truthy(domain) /\ db.ready /\ db.q.invalid /\ domain \in invalid_domains

checkCommonValidDomain(domain, db) ==
    Truthy(domain) /\ db.ready /\ db.q.common /\ domain \in common_valid_domains

checkDomainTypo(domain, db) ==
    IF Truthy(domain) /\ db.ready /\ db.q.typo /\ domain \in DOMAIN domain_typos
    THEN domain_typos[domain] ELSE NULL

\* the first row of valid_tlds whose undotted form ends the domain
checkTldCorrection(domain, db) ==
    IF ~(Truthy(domain) /\ db.ready /\ db.q.tld) THEN NULL
    ELSE LET hits == {k \in 1..Len(valid_tlds) :
                         /\ EndsWith(domain, RemoveDots(valid_tlds[k]))
                         /\ ~EndsWith(domain, valid_tlds[k])}
         IN  IF hits = {} THEN NULL
             ELSE LET k == CHOOSE h \in hits : \A j \in hits : h <= j
                      tld == valid_tlds[k]
                      index == LastIndexOf(domain, RemoveDots(tld))
                  IN  SubSeq(domain, 1, index - 1) \o tld

\* lines 1053-1062: the TLD correction, and the object returned
correctTld(corrected, localPart, current, tldCorrectedDomain) ==
    [corrected |-> corrected \/ Truthy(tldCorrectedDomain),
     email |-> IF Truthy(tldCorrectedDomain)
               THEN localPart \o "@" \o tldCorrectedDomain ELSE current]

\* lines 1046-1051: the Gmail alias is removed when the domain split off at
\* line 1036 is gmail.com
correctAlias(corrected, localPart, domain, current, db) ==
    IF config.removeGmailAliases /\ domain = "gmail.com" /\ Includes(localPart, "+")
    THEN correctTld(TRUE, localPart, Split(localPart, "+")[1] \o "@gmail.com",
                    checkTldCorrection("gmail.com", db))
    ELSE correctTld(corrected, localPart, current,
                    checkTldCorrection(SplitAt(current).domain, db))

\* lines 1039-1044
correctDomain(corrected, noSpace, localPart, domain, correctedDomain, db) ==
    IF Truthy(correctedDomain)
    THEN correctAlias(TRUE, localPart, domain, localPart \o "@" \o correctedDomain, db)
    ELSE correctAlias(corrected, localPart, domain, noSpace, db)

\* lines 1036-1040
correctParts(corrected, noSpace, parts, db) ==
    IF ~Truthy(parts.domain) THEN [corrected |-> corrected, email |-> noSpace]
    ELSE correctDomain(corrected, noSpace, parts.localPart, parts.domain,
                       checkDomainTypo(parts.domain, db), db)

\* lines 1028-1033
correctSpaces(trimmed, noSpace, db) ==
    correctParts(noSpace # trimmed, noSpace, SplitAt(noSpace), db)

correctTrimmed(trimmed, db) == correctSpaces(trimmed, RemoveWhitespace(trimmed), db)

correctEmailTypos(email, db) ==
    IF ~Truthy(email) THEN [corrected |-> FALSE, email |-> email]
    ELSE correctTrimmed(ToLowerCase(Trim(email)), db)

isValidDomain(email, db) ==
    LET domain == DomainOf(email)
    IN  /\ Truthy(domain)
        /\ ~checkInvalidDomain(domain, db)
        /\ checkCommonValidDomain(domain, db)

(***************************************************************************)
(* quickValidate (lines 1096-1206).  A result is a record with the fields  *)
(* of the JavaScript object that the pipeline reads; a field the object    *)
(* does not carry is NULL.  A step of validationSteps keeps its name and   *)
(* its passed/applied flag.                                                *)
(***************************************************************************)
Bool(b) == IF b THEN "true" ELSE "false"

Step(name, flag) == [step |-> name, flag |-> Bool(flag)]

\* lines 1104-1120
quickBadFormat(email, t) ==
    [originalEmail |-> email, currentEmail |-> email, formatValid |-> FALSE,
     wasCorrected |-> FALSE, domainValid |-> FALSE, isInvalidDomain |-> FALSE,
     isKnownValid |-> FALSE,
     status |-> "invalid", subStatus |-> "bad_format", recheckNeeded |-> FALSE,
     validationSteps |-> <<Step("format_check", FALSE)>>,
     date_last_um_check_epoch |-> t, um_email |-> email, email |-> email,
     um_email_status |-> "Unable to change", um_bounce_status |-> "Likely to bounce"]

\* lines 1146-1164
quickInvalidDomain(email, corrected, correctedEmail, t) ==
    [originalEmail |-> email, currentEmail |-> correctedEmail,
     formatValid |-> TRUE, wasCorrected |-> corrected,
     domainValid |-> FALSE, isInvalidDomain |-> TRUE, isKnownValid |-> FALSE,
     status |-> "invalid", subStatus |-> "invalid_domain",
     recheckNeeded |-> FALSE,
     validationSteps |-> <<Step("format_check", TRUE),
                           Step("typo_correction", corrected),
                           Step("invalid_domain_check", FALSE)>>,
     date_last_um_check_epoch |-> t, um_email |-> correctedEmail,
     email |-> email,
     um_email_status |-> IF corrected THEN "Changed" ELSE "Unchanged",
     um_bounce_status |-> "Likely to bounce"]

\* lines 1167-1205
quickDomainChecked(email, corrected, correctedEmail, domainValid, t) ==
    [originalEmail |-> email, currentEmail |-> correctedEmail,
     formatValid |-> TRUE, wasCorrected |-> corrected,
     domainValid |-> domainValid, isInvalidDomain |-> FALSE,
     isKnownValid |-> FALSE,
     status |-> IF domainValid THEN "valid" ELSE "unknown",
     subStatus |-> NULL,
     recheckNeeded |-> ~domainValid,
     validationSteps |-> <<Step("format_check", TRUE),
                           Step("typo_correction", corrected),
                           Step("domain_check", domainValid)>>,
     date_last_um_check_epoch |-> t, um_email |-> correctedEmail,
     email |-> email,
     um_email_status |-> IF corrected THEN "Changed" ELSE "Unchanged",
     um_bounce_status |-> IF domainValid THEN "Unlikely to bounce" ELSE "Unknown"]

\* lines 1139-1167
quickCorrected(email, corrected, correctedEmail, db, t) ==
    IF checkInvalidDomain(DomainOf(correctedEmail), db)
    THEN quickInvalidDomain(email, corrected, correctedEmail, t)
    ELSE quickDomainChecked(email, corrected, correctedEmail,
                            isValidDomain(correctedEmail, db), t)

\* lines 1123-1137
quickFormatValid(email, fix, db, t) == quickCorrected(email, fix.corrected, fix.email, db, t)

quickValidate(email, db, t) ==
    IF ~isValidEmailFormat(email) THEN quickBadFormat(email, t)
    ELSE quickFormatValid(email, correctEmailTypos(email, db), db, t)

(***************************************************************************)
(* Timers.  this.timeouts (lines 343-349) with its defaults, the backoff   *)
(* of line 1370 and the freshness window of line 1479.  A timer that is    *)
(* not armed is NoTimer.                                                   *)
(***************************************************************************)
SupabaseTimeoutMs == 8000
ZeroBounceTimeoutMs == 6000
ZeroBounceRetryTimeoutMs == 8000
ValidationTimeoutMs == 7000
BackoffBaseMs == 1000
BackoffCapMs == 3000
FreshnessMs == 604800000
DefaultMaxRetries == 1
NoTimer == -1

Min(a, b) == IF a <= b THEN a ELSE b

RECURSIVE Pow2(_)
Pow2(n) == IF n = 0 THEN 1 ELSE 2 * Pow2(n - 1)

\* Math.min(1000 * Math.pow(2, retryCount), 3000)
backoffDelay(retryCount) == Min(BackoffBaseMs * Pow2(retryCount), BackoffCapMs)

\* this.zeroBounceMaxRetries = config.zeroBounceMaxRetries || 1 (line 359)
zeroBounceMaxRetries ==
    IF config.zeroBounceMaxRetries # 0 THEN config.zeroBounceMaxRetries
    ELSE DefaultMaxRetries

\* retryCount > 0 ? this.timeouts.zeroBounceRetry : this.timeouts.zeroBounce
attemptTimeoutMs(retryCount) ==
    IF retryCount > 0 THEN ZeroBounceRetryTimeoutMs ELSE ZeroBounceTimeoutMs

(***************************************************************************)
(* The ZeroBounce API as the client sees it: how long a request takes,     *)
(* and what comes back.  A reply is the JSON body of an OK response; a     *)
(* failure is the message of the error the request or its decoding throws. *)
(***************************************************************************)
FastMs == 200
NeverMs == 100000
OracleLatencies == {FastMs, NeverMs}
CacheLatencies == {FastMs, NeverMs}

Reply(st, sub, dym) == [status |-> st, sub_status |-> sub, did_you_mean |-> dym]

OracleReplies ==
    { Reply("valid", "", NULL),
      Reply("invalid", "mailbox_not_found", NULL),
      Reply("invalid", "possible_typo", "fixed@x.com"),
      Reply("invalid", "possible_typo", "info@bad.com"),
      Reply("valid", "", "info@bad.com"),
      Reply("catch-all", "", NULL),
      Reply("unknown", "mail_server_temporary_error", NULL),
      Reply("spamtrap", "", NULL),
      Reply("abuse", "", NULL),
      Reply("do_not_mail", "role_based", NULL) }

\* `ZeroBounce API error: ${response.status} ${response.statusText}` (line 1248)
HttpFailures ==
    { "ZeroBounce API error: 500 Internal Server Error",
      "ZeroBounce API error: 504 Gateway Timeout" }
\* fetch rejecting
TransportFailures == { "fetch failed" }
\* response.json() rejecting on a body that is no JSON (line 1251)
DecodeFailures == { "Unexpected token < in JSON at position 0" }
OracleFailures == HttpFailures \cup TransportFailures \cup DecodeFailures
\* the message withTimeout gives an aborted request (line 1346)
ZeroBounceTimeoutMessage == "ZeroBounce check timeout"

(***************************************************************************)
(* checkWithZeroBounce: the status mapping of lines 1267-1343 and the      *)
(* results of lines 1212-1217 and 1378-1386.                               *)
(***************************************************************************)
BounceResult(email, st, sub, recheck, suggested, source, err, retryCount, isTimeout, bounce, t) ==
    [email |-> email, status |-> st, subStatus |-> sub, recheckNeeded |-> recheck,
     suggestedEmail |-> suggested, source |-> source, error |-> err,
     retryCount |-> retryCount, isTimeout |-> isTimeout,
     um_bounce_status |-> bounce, date_last_um_check_epoch |-> t]

\* the oracle's status and sub-status handed on as they are; C13 fails under it
mapOracleReplyVerbatim(email, reply, retryCount, t) ==
    BounceResult(email, reply.status, reply.sub_status, FALSE,
                 IF Truthy(reply.did_you_mean) THEN reply.did_you_mean ELSE NULL,
                 "zerobounce", NULL, retryCount, FALSE, "Unknown", t)

mapOracleReply(email, reply, retryCount, t) ==
    LET suggestedEmail == IF Truthy(reply.did_you_mean) THEN reply.did_you_mean ELSE NULL
        mapped ==
            CASE reply.status = "valid" ->
                     [st |-> "valid", sub |-> NULL, re |-> FALSE, b |-> "Unlikely to bounce"]
              [] reply.status = "invalid" ->
                     [st |-> "invalid", sub |-> reply.sub_status, re |-> FALSE,
                      b |-> "Likely to bounce"]
              [] reply.status \in {"catch-all", "unknown"} ->
                     [st |-> "unknown", sub |-> NULL, re |-> TRUE, b |-> "Unknown"]
              [] reply.status = "spamtrap" ->
                     [st |-> "invalid", sub |-> "spamtrap", re |-> FALSE,
                      b |-> "Likely to bounce"]
              [] reply.status = "abuse" ->
                     [st |-> "invalid", sub |-> "abuse", re |-> FALSE,
                      b |-> "Likely to bounce"]
              [] OTHER ->
                     [st |-> "check_failed", sub |-> NULL, re |-> TRUE, b |-> "Unknown"]
    IN  BounceResult(email, mapped.st, mapped.sub, mapped.re, suggestedEmail,
                     "zerobounce", NULL, retryCount, FALSE, mapped.b, t)

checkSkipped(email) ==
    BounceResult(email, "check_skipped", NULL, TRUE, NULL, "configuration", NULL, 0,
                 FALSE, NULL, 0)

checkFailed(email, message, retryCount) ==
    BounceResult(email, "check_failed", NULL, TRUE, NULL, "zerobounce", message,
                 retryCount, Includes(message, "timeout"), NULL, 0)

\* line 1362 without its bound on retryCount; C9 fails under it
shouldRetryUnbounded(message, retryCount) ==
    Includes(message, "timeout") \/ Includes(message, "network")

\* the catch block's decision (lines 1359-1362)
shouldRetryAfter(message, retryCount) ==
    /\ Includes(message, "timeout") \/ Includes(message, "network")
    /\ retryCount < zeroBounceMaxRetries

(***************************************************************************)
(* saveValidationResult (lines 781-1011).  One activation per caller: the  *)
(* validateEmail activations and the direct callers (the queue consumer,   *)
(* api/queue-consumer.js line 97).  Every await on the database is a step; *)
(* a query may come back with an error.                                    *)
(***************************************************************************)
MaxDepth == 2
Frames == 0..MaxDepth
MaxWriters == 2
Writers == (MaxDepth + 1)..(MaxDepth + MaxWriters)
Agents == Frames \cup Writers

NoRow == 0

SaveOut(success, operation, reason) ==
    [success |-> success, operation |-> operation, reason |-> reason]

IdleSave == [pc |-> "idle", email |-> NULL, result |-> NULL, existing |-> NoRow,
             contactId |-> NoRow, out |-> SaveOut(FALSE, NULL, NULL)]

SaveDone(a, out) == [sv[a] EXCEPT !.pc = "done", !.out = out]

\* saveEntry without the guard of lines 783-790; C2 fails under it
saveEntryAnyStatus(email, validationResult) ==
    IF ~(supabaseEnabled /\ supabase)
    THEN [IdleSave EXCEPT !.email = email, !.result = validationResult, !.pc = "done",
                          !.out = SaveOut(FALSE, NULL, "Supabase not enabled")]
    ELSE IF supabaseConnectionStatus \in {"pending", "initializing"}
    THEN [IdleSave EXCEPT !.email = email, !.result = validationResult,
                          !.pc = "conntest"]
    ELSE IF supabaseConnectionStatus # "connected"
    THEN [IdleSave EXCEPT !.email = email, !.result = validationResult, !.pc = "done",
                          !.out = SaveOut(FALSE, NULL, "Supabase not connected")]
    ELSE [IdleSave EXCEPT !.email = email, !.result = validationResult, !.pc = "lookup"]

\* saveEntry testing the connection whenever it is not connected; C38 fails
\* under it
saveEntryRetesting(email, validationResult) ==
    LET call == [IdleSave EXCEPT !.email = email, !.result = validationResult]
    IN  IF validationResult.status # "valid"
        THEN [call EXCEPT !.pc = "done", !.out = SaveOut(FALSE, NULL, "Email is not valid")]
        ELSE IF ~(supabaseEnabled /\ supabase)
        THEN [call EXCEPT !.pc = "done", !.out = SaveOut(FALSE, NULL, "Supabase not enabled")]
        ELSE IF supabaseConnectionStatus # "connected"
        THEN [call EXCEPT !.pc = "conntest"]
        ELSE [call EXCEPT !.pc = "lookup"]

\* Lines 781-828, up to the first await: the guards, then either the
\* connection test or the search for an existing record.
saveEntry(email, validationResult) ==
    LET call == [IdleSave EXCEPT !.email = email, !.result = validationResult]
    IN  IF validationResult.status # "valid"
        THEN [call EXCEPT !.pc = "done", !.out = SaveOut(FALSE, NULL, "Email is not valid")]
        ELSE IF ~(supabaseEnabled /\ supabase)
        THEN [call EXCEPT !.pc = "done", !.out = SaveOut(FALSE, NULL, "Supabase not enabled")]
        ELSE IF supabaseConnectionStatus \in {"pending", "initializing"}
        THEN [call EXCEPT !.pc = "conntest"]
        ELSE IF supabaseConnectionStatus # "connected"
        THEN [call EXCEPT !.pc = "done", !.out = SaveOut(FALSE, NULL, "Supabase not connected")]
        ELSE [call EXCEPT !.pc = "lookup"]

\* _testSupabaseConnectionAsync (lines 363-407) with a client: the query
\* succeeds, returns an error, or throws.
ConnectionTestOutcomes == {"connected", "failed", "error"}

\* .from('email_validations').select(...).eq('email', email)
rowsByEmail(email) == {r \in email_validations : r.email = email}

\* a lookup that never finds the record; C4 fails under it
existingRecordNever(email) == NoRow

\* .maybeSingle(): the row when exactly one matches; null when none does, and
\* null with error PGRST116, which line 873 lets pass, when several do
existingRecord(email) ==
    LET rows == rowsByEmail(email)
    IN  IF Cardinality(rows) = 1 THEN (CHOOSE r \in rows : TRUE).id ELSE NoRow

\* the fields lines 845-862 and 890-897 / 956-965 compute
umEmailStatusOf(r) ==
    IF Truthy(r.um_email_status) THEN r.um_email_status
    ELSE IF r.wasCorrected THEN "Changed" ELSE "Unchanged"

umBounceStatusOf(r) ==
    IF Truthy(r.um_bounce_status) THEN r.um_bounce_status
    ELSE IF r.status = "valid" THEN "Unlikely to bounce"
    ELSE IF r.status = "invalid" THEN "Likely to bounce" ELSE "Unknown"

umEmailOf(email, r) ==
    IF Truthy(r.currentEmail) THEN r.currentEmail
    ELSE IF Truthy(r.um_email) THEN r.um_email ELSE email

\* a row of email_validations; writtenFrom records, for the analysis, the
\* status of the result the row was last written from
NewRow(id, contactId, email, r) ==
    [id |-> id, contact_id |-> contactId, email |-> email,
     um_email |-> umEmailOf(email, r),
     um_email_status |-> umEmailStatusOf(r),
     um_bounce_status |-> umBounceStatusOf(r),
     date_last_um_check_epoch |-> r.date_last_um_check_epoch,
     writtenFrom |-> r.status]

UpdatedRow(row, email, r) ==
    [row EXCEPT !.um_email = umEmailOf(email, r),
                !.um_email_status = umEmailStatusOf(r),
                !.um_bounce_status = umBounceStatusOf(r),
                !.date_last_um_check_epoch = r.date_last_um_check_epoch,
                !.writtenFrom = r.status]

StoreUnchanged == UNCHANGED <<email_validations, contacts, nextId>>

\* lines 802-828: the awaited connection test returns
SaveConnectionTest(a) ==
    /\ sv[a].pc = "conntest"
    /\ \E outcome \in ConnectionTestOutcomes :
          /\ supabaseConnectionStatus' = outcome
          /\ sv' = [sv EXCEPT ![a] =
                 IF outcome = "connected" THEN [@ EXCEPT !.pc = "lookup"]
                 ELSE SaveDone(a, SaveOut(FALSE, NULL, "Connection test failed"))]
    /\ StoreUnchanged
    /\ UNCHANGED <<now, config, ident, clientManager, requests, norm, batch, supabaseEnabled, supabase, frame, calls, trace, saveLog, overlap>>

\* lines 867-882 and 925: the search for an existing record returns
SaveLookup(a) ==
    /\ sv[a].pc = "lookup"
    /\ \E ok \in BOOLEAN :
          sv' = [sv EXCEPT ![a] =
                 IF ~ok THEN SaveDone(a, SaveOut(FALSE, NULL, "Failed to search for existing record"))
                 ELSE IF existingRecord(sv[a].email) # NoRow
                 THEN [@ EXCEPT !.pc = "update", !.existing = existingRecord(sv[a].email)]
                 ELSE [@ EXCEPT !.pc = "contact"]]
    /\ StoreUnchanged
    /\ UNCHANGED <<now, config, ident, clientManager, requests, norm, batch, supabaseEnabled, supabase, supabaseConnectionStatus,
                   frame, calls, trace, saveLog, overlap>>

\* lines 900-923: the update of the existing record returns
SaveUpdate(a) ==
    /\ sv[a].pc = "update"
    /\ \E ok \in BOOLEAN :
          IF ok /\ \E r \in email_validations : r.id = sv[a].existing
          THEN /\ email_validations' =
                     {IF r.id = sv[a].existing
                      THEN UpdatedRow(r, sv[a].email, sv[a].result) ELSE r :
                      r \in email_validations}
               /\ sv' = [sv EXCEPT ![a] = SaveDone(a, SaveOut(TRUE, "update", NULL))]
          ELSE /\ UNCHANGED email_validations
               /\ sv' = [sv EXCEPT ![a] =
                            SaveDone(a, SaveOut(FALSE, NULL, "Failed to update existing record"))]
    /\ UNCHANGED <<contacts, nextId>>
    /\ UNCHANGED <<now, config, ident, clientManager, requests, norm, batch, supabaseEnabled, supabase, supabaseConnectionStatus,
                   frame, calls, trace, saveLog, overlap>>

\* lines 932-953: the insert into contacts returns
SaveCreateContact(a) ==
    /\ sv[a].pc = "contact"
    /\ \E ok \in BOOLEAN :
          IF ok
          THEN /\ contacts' = contacts \cup {nextId}
               /\ nextId' = nextId + 1
               /\ sv' = [sv EXCEPT ![a] = [@ EXCEPT !.pc = "record", !.contactId = nextId]]
          ELSE /\ UNCHANGED <<contacts, nextId>>
               /\ sv' = [sv EXCEPT ![a] =
                            SaveDone(a, SaveOut(FALSE, NULL, "Failed to create contact"))]
    /\ UNCHANGED email_validations
    /\ UNCHANGED <<now, config, ident, clientManager, requests, norm, batch, supabaseEnabled, supabase, supabaseConnectionStatus,
                   frame, calls, trace, saveLog, overlap>>

\* lines 967-1002: the insert into email_validations returns
SaveInsertRecord(a) ==
    /\ sv[a].pc = "record"
    /\ \E ok \in BOOLEAN :
          IF ok
          THEN /\ email_validations' = email_validations \cup
                     {NewRow(nextId, sv[a].contactId, sv[a].email, sv[a].result)}
               /\ nextId' = nextId + 1
               /\ sv' = [sv EXCEPT ![a] = SaveDone(a, SaveOut(TRUE, "insert", NULL))]
          ELSE /\ UNCHANGED <<email_validations, nextId>>
               /\ sv' = [sv EXCEPT ![a] =
                            SaveDone(a, SaveOut(FALSE, NULL, "Failed to insert validation record"))]
    /\ UNCHANGED contacts
    /\ UNCHANGED <<now, config, ident, clientManager, requests, norm, batch, supabaseEnabled, supabase, supabaseConnectionStatus,
                   frame, calls, trace, saveLog, overlap>>

(***************************************************************************)
(* Direct callers of saveValidationResult: processValidationSave of        *)
(* api/queue-consumer.js hands over the address and the result of a queue  *)
(* payload, whatever its status.                                           *)
(***************************************************************************)
MaxCalls == 1
MaxSaves == 2
MaxConfiguredRetries == 2
SaveEmails == {"known@allowlisted.com", "slow@domain.com"}
PayloadStatuses == {"valid", "invalid", "unknown"}

PayloadResult(email, status, t) ==
    [originalEmail |-> email, currentEmail |-> email, formatValid |-> TRUE,
     wasCorrected |-> FALSE, domainValid |-> FALSE, isInvalidDomain |-> FALSE,
     isKnownValid |-> FALSE, status |-> status, subStatus |-> NULL,
     recheckNeeded |-> status \notin {"valid", "invalid"},
     validationSteps |-> <<>>, date_last_um_check_epoch |-> t,
     um_email |-> email, email |-> email, um_email_status |-> NULL,
     um_bounce_status |-> NULL]

InFlight(a) == sv[a].pc \notin {"idle", "done"}

LogEntry(a) ==
    [agent |-> a, email |-> sv[a].email, status |-> sv[a].result.status,
     success |-> sv[a].out.success, operation |-> sv[a].out.operation]

\* a direct caller awaits saveValidationResult(email, validationResult)
saveValidationResult(w, email, status) ==
    /\ sv[w].pc = "idle"
    /\ calls < MaxSaves
    /\ calls' = calls + 1
    /\ sv' = [sv EXCEPT ![w] = saveEntry(email, PayloadResult(email, status, now))]
    /\ overlap' = (overlap \/ \E b \in Agents \ {w} : sv[b].pc # "idle")
    /\ StoreUnchanged
    /\ UNCHANGED <<now, config, ident, clientManager, requests, norm, batch, supabaseEnabled, supabase, supabaseConnectionStatus,
                   frame, trace, saveLog>>

\* the caller's await returns
SaveReturn(w) ==
    /\ sv[w].pc = "done"
    /\ saveLog' = Append(saveLog, LogEntry(w))
    /\ sv' = [sv EXCEPT ![w] = IdleSave]
    /\ StoreUnchanged
    /\ UNCHANGED <<now, config, ident, clientManager, requests, norm, batch, supabaseEnabled, supabase, supabaseConnectionStatus,
                   frame, calls, trace, overlap>>

SaveStep(a) ==
    \/ SaveConnectionTest(a)
    \/ SaveLookup(a)
    \/ SaveUpdate(a)
    \/ SaveCreateContact(a)
    \/ SaveInsertRecord(a)

(***************************************************************************)
(* validateEmail (lines 1391-1699).  An activation is a frame; pc is the   *)
(* await it is suspended at:                                               *)
(*   quick      await this.quickValidate(...)            line 1411         *)
(*   pending    await Promise.allSettled([...])          line 1438         *)
(*   recursing  await this.validateEmail(suggested...)   line 1544         *)
(*   saving     await this.saveValidationResult(...)     lines 1643, 1682  *)
(*   done       returned; result, returnedAt and path say what and how     *)
(***************************************************************************)
NoReply == Reply(NULL, NULL, NULL)

\* settledAt records when the check settled
IdleKnown == [st |-> "none", arrive |-> NoTimer, timer |-> NoTimer,
              found |-> FALSE, data |-> NULL, settledAt |-> NoTimer]

\* reply is the body the last attempt received
IdleZb == [st |-> "none", retryCount |-> 0, attempts |-> 0, failures |-> <<>>,
           arrive |-> NoTimer, timer |-> NoTimer, value |-> NULL, reply |-> NoReply]

IdleFrame ==
    [pc |-> "idle", email |-> NULL, skipZeroBounce |-> FALSE, timeoutMs |-> 0,
     isRetry |-> FALSE, quickResult |-> NULL, result |-> NULL,
     timer |-> NoTimer, deadlineAt |-> NoTimer, aborted |-> FALSE,
     known |-> IdleKnown, zb |-> IdleZb, suggested |-> NULL,
     returnedAt |-> NoTimer, path |-> NULL]

Returned(f, result, path, t) ==
    [f EXCEPT !.pc = "done", !.result = result, !.path = path, !.returnedAt = t,
              !.timer = NoTimer]

\* when a request answers: never, if its withTimeout aborts it first
ArrivalAt(t, latency, timeoutMs) == IF latency < timeoutMs THEN t + latency ELSE NoTimer

\* isKnownValidEmail up to its await (lines 728-745)
startKnownValidCheck(latency, t) ==
    IF ~(supabaseEnabled /\ supabase)
    THEN [IdleKnown EXCEPT !.st = "settled", !.settledAt = t]
    ELSE [IdleKnown EXCEPT !.st = "wait",
                           !.arrive = ArrivalAt(t, latency, SupabaseTimeoutMs),
                           !.timer = t + SupabaseTimeoutMs]

\* one request of checkWithZeroBounce (lines 1227-1245)
startAttempt(zb, retryCount, latency, t) ==
    [zb EXCEPT !.st = "attempt", !.retryCount = retryCount, !.attempts = @ + 1,
               !.arrive = ArrivalAt(t, latency, attemptTimeoutMs(retryCount)),
               !.timer = t + attemptTimeoutMs(retryCount)]

\* checkWithZeroBounce up to its await (lines 1209-1245); skipZeroBounce puts
\* null in its place (line 1440)
startZeroBounce(email, skipZeroBounce, latency, t) ==
    IF skipZeroBounce THEN [IdleZb EXCEPT !.st = "skipped"]
    ELSE IF ~config.zeroBounceConfigured
    THEN [IdleZb EXCEPT !.st = "settled", !.value = checkSkipped(email)]
    ELSE startAttempt(IdleZb, 0, latency, t)

\* a catch block that rethrows what it does not retry; C12 fails under it
afterFailureRethrown(zb, email, message, t) ==
    IF shouldRetryAfter(message, zb.retryCount)
    THEN [zb EXCEPT !.failures = Append(@, message), !.timer = NoTimer,
                    !.st = "backoff", !.arrive = t + backoffDelay(zb.retryCount)]
    ELSE [zb EXCEPT !.failures = Append(@, message), !.timer = NoTimer,
                    !.st = "rejected", !.arrive = NoTimer]

\* the catch block of checkWithZeroBounce (lines 1350-1387)
afterFailure(zb, email, message, t) ==
    LET failed == [zb EXCEPT !.failures = Append(@, message),
                             !.arrive = NoTimer, !.timer = NoTimer]
    IN  IF shouldRetryAfter(message, zb.retryCount)
        THEN [failed EXCEPT !.st = "backoff", !.arrive = t + backoffDelay(zb.retryCount)]
        ELSE [failed EXCEPT !.st = "settled",
                            !.value = checkFailed(email, message, zb.retryCount)]

\* withTimeout (lines 410-426): the timer aborts the controller's signal and
\* nothing else.  The promiseFn of isKnownValidEmail and of checkWithZeroBounce
\* hand the signal to their request (lines 744, 1245), which is then rejected
\* and rethrown as errorMessage; the promiseFn of validateEmail (line 1433)
\* takes no signal, so the await of line 416 goes on.
abortRejects(promiseFn) == promiseFn \in {"isKnownValidEmail", "checkWithZeroBounce"}

\* line 1510 without its test of isRetry; C7 fails under it
followsEverySuggestion(bounceCheck, isRetry) == Truthy(bounceCheck.suggestedEmail)

\* the call is with suggestion and this is no re-validation (line 1510)
followsSuggestion(bounceCheck, isRetry) ==
    Truthy(bounceCheck.suggestedEmail) /\ ~isRetry

\* withKnownValid without the assignment of line 1458; C26 fails under it
withKnownValidKeepsRecheck(quick, known) ==
    IF known.found
    THEN [quick EXCEPT !.isKnownValid = TRUE,
                       !.status = IF known.data.um_bounce_status = "Unlikely to bounce"
                                  THEN "valid" ELSE "invalid",
                       !.um_email_status = known.data.um_email_status,
                       !.um_bounce_status = known.data.um_bounce_status,
                       !.date_last_um_check_epoch = known.data.date_last_um_check_epoch,
                       !.validationSteps = Append(@, Step("known_valid_check", TRUE))]
    ELSE [quick EXCEPT !.isKnownValid = FALSE,
                       !.validationSteps = Append(@, Step("known_valid_check", FALSE))]

\* lines 1443-1494: the quick result with the database's answer laid over it
withKnownValid(quick, known) ==
    IF known.found
    THEN [quick EXCEPT !.isKnownValid = TRUE,
                       !.status = IF known.data.um_bounce_status = "Unlikely to bounce"
                                  THEN "valid" ELSE "invalid",
                       !.recheckNeeded = FALSE,
                       !.um_email_status = known.data.um_email_status,
                       !.um_bounce_status = known.data.um_bounce_status,
                       !.date_last_um_check_epoch = known.data.date_last_um_check_epoch,
                       !.validationSteps = Append(@, Step("known_valid_check", TRUE))]
    ELSE [quick EXCEPT !.isKnownValid = FALSE,
                       !.validationSteps = Append(@, Step("known_valid_check", FALSE))]

\* a test of line 1479 that no record passes; C17 fails under it
isFreshNever(known, t) == FALSE

\* line 1479; every epoch the model stores is in milliseconds
isFresh(known, t) ==
    known.found /\ t - known.data.date_last_um_check_epoch < FreshnessMs

\* the merge without the test of line 1576: whatever status the check
\* resolved to replaces the result's; C15 fails under it
withBounceCheckAnyStatus(result, bounceCheck) ==
    [result EXCEPT !.status = bounceCheck.status,
                   !.subStatus = bounceCheck.subStatus,
                   !.recheckNeeded = bounceCheck.recheckNeeded,
                   !.validationSteps =
                       Append(@, [step |-> "zerobounce_check",
                                  flag |-> bounceCheck.status])]

\* lines 1575-1591
withBounceCheck(result, bounceCheck) ==
    LET merged == IF bounceCheck.status \in {"valid", "invalid"}
                  THEN [result EXCEPT !.status = bounceCheck.status,
                                      !.subStatus = bounceCheck.subStatus,
                                      !.recheckNeeded = bounceCheck.recheckNeeded,
                                      !.um_bounce_status = bounceCheck.um_bounce_status,
                                      !.date_last_um_check_epoch =
                                          bounceCheck.date_last_um_check_epoch]
                  ELSE result
    IN  [merged EXCEPT !.validationSteps =
                           Append(@, [step |-> "zerobounce_check",
                                      flag |-> bounceCheck.status])]

\* a rejected suggestion that leaves the result as it was; C36 fails under it
suggestionIgnored(result) == result

\* lines 1526-1538
suggestionRejected(result) ==
    [result EXCEPT !.status = "invalid", !.subStatus = "invalid_domain",
                   !.recheckNeeded = FALSE, !.um_bounce_status = "Likely to bounce",
                   !.validationSteps =
                       Append(@, [step |-> "zerobounce_suggestion", flag |-> "invalid"])]

\* the recursive result handed on as it is; C8 fails under it
adoptUnlabelled(suggestedEmailResult, email) == suggestedEmailResult

\* lines 1551-1563
adoptSuggested(suggestedEmailResult, email) ==
    [suggestedEmailResult EXCEPT
        !.originalEmail = email,
        !.wasCorrected = TRUE,
        !.validationSteps = Append(@, [step |-> "zerobounce_suggestion",
                                       flag |-> suggestedEmailResult.status]),
        !.um_email_status = "Changed",
        !.email = email]

\* the options of the recursive call (lines 1544-1549)
recursiveFrame(suggestedEmail, timeoutMs) ==
    [IdleFrame EXCEPT !.pc = "quick", !.email = suggestedEmail,
                      !.skipZeroBounce = FALSE,
                      !.timeoutMs = (timeoutMs * 8) \div 10,
                      !.isRetry = TRUE]

\* a result that is handed to nothing; C20 fails under it
savesNothing(final) == FALSE

\* line 1640
savesResult(final) == supabaseEnabled /\ final.status = "valid"

\* lines 1443-1663 from the join to the next await or return: what the frame
\* does next, and with which result
merge(f, db, t) ==
    LET result == withKnownValid(f.quickResult, f.known)
    IN  IF isFresh(f.known, t)
        THEN [next |-> "return", result |-> result, path |-> "cache_hit"]
        ELSE IF f.zb.st = "settled" /\ followsSuggestion(f.zb.value, f.isRetry)
        THEN IF checkInvalidDomain(DomainOf(f.zb.value.suggestedEmail), db)
             THEN [next |-> "return", result |-> suggestionRejected(result),
                   path |-> "suggestion_rejected"]
             ELSE [next |-> "recurse", result |-> result, path |-> "suggestion"]
        ELSE LET final == IF f.zb.st = "settled"
                          THEN withBounceCheck(result, f.zb.value) ELSE result
             IN  IF savesResult(final)
                 THEN [next |-> "save", result |-> final, path |-> "merged"]
                 ELSE [next |-> "return", result |-> final, path |-> "merged"]

IdleTrace == [cache |-> 0, oracle |-> 0, save |-> 0, recursions |-> 0]

Inputs ==
    { "not-an-email", "Test@Gmail.com ", "user@gmial.com", "known@allowlisted.com",
      "slow@domain.com", "typo@x.con", "a@bad.com" }

Quiet ==
    /\ \A d \in Frames : frame[d].pc \in {"idle", "done"}
    /\ \A a \in Agents : sv[a].pc = "idle"

Bump(field) == [trace EXCEPT ![field] = @ + 1]

\* a caller awaits validateEmail(email, { skipZeroBounce }) (line 1391)
validateEmail(email, skipZeroBounce) ==
    /\ Quiet
    /\ calls < MaxCalls
    /\ calls' = calls + 1
    /\ trace' = IdleTrace
    /\ frame' = [d \in Frames |->
                    IF d = 0
                    THEN [IdleFrame EXCEPT !.pc = "quick", !.email = email,
                                           !.skipZeroBounce = skipZeroBounce,
                                           !.timeoutMs = ValidationTimeoutMs]
                    ELSE IdleFrame]
    /\ StoreUnchanged
    /\ UNCHANGED <<now, config, ident, clientManager, requests, norm, batch, supabaseEnabled, supabase, supabaseConnectionStatus,
                   sv, saveLog, overlap>>

\* lines 1432-1441: the deadline timer, the database check and the ZeroBounce
\* check start together
fanOut(d, quick, cl, zl) ==
    /\ frame' = [frame EXCEPT ![d] =
                    [@ EXCEPT !.pc = "pending",
                              !.quickResult = quick,
                              !.timer = now + frame[d].timeoutMs,
                              !.deadlineAt = now + frame[d].timeoutMs,
                              !.known = startKnownValidCheck(cl, now),
                              !.zb = startZeroBounce(quick.currentEmail,
                                                     frame[d].skipZeroBounce, zl, now)]]
    /\ trace' = [trace EXCEPT !.cache = @ + 1,
                              !.oracle = IF frame[d].skipZeroBounce THEN @ ELSE @ + 1]

\* afterQuick without the return of lines 1414-1417; C1 fails under it
afterQuickUngated(d, quick, cl, zl) ==
    IF quick.isInvalidDomain
    THEN /\ frame' = [frame EXCEPT ![d] = Returned(@, quick, "invalid_domain", now)]
         /\ UNCHANGED trace
    ELSE fanOut(d, quick, cl, zl)

\* afterQuick without the return of lines 1419-1426; C14 fails under it
afterQuickPastDenylist(d, quick, cl, zl) ==
    IF ~quick.formatValid
    THEN /\ frame' = [frame EXCEPT ![d] = Returned(@, quick, "bad_format", now)]
         /\ UNCHANGED trace
    ELSE fanOut(d, quick, cl, zl)

\* lines 1414-1429: the two early returns
afterQuick(d, quick, cl, zl) ==
    IF ~quick.formatValid
    THEN /\ frame' = [frame EXCEPT ![d] = Returned(@, quick, "bad_format", now)]
         /\ UNCHANGED trace
    ELSE IF quick.isInvalidDomain
    THEN /\ frame' = [frame EXCEPT ![d] = Returned(@, quick, "invalid_domain", now)]
         /\ UNCHANGED trace
    ELSE fanOut(d, quick, cl, zl)

\* the first table lookup of a well-formed address tests a pending connection
\* (lines 470-478)
connectionAfterQuick(email, outcome) ==
    IF /\ isValidEmailFormat(email)
       /\ supabaseEnabled /\ supabase
       /\ supabaseConnectionStatus \in {"pending", "initializing"}
    THEN outcome ELSE supabaseConnectionStatus

afterQuickValidate(d, status, q, cl, zl) ==
    /\ supabaseConnectionStatus' = status
    /\ afterQuick(d, quickValidate(frame[d].email, DbOf(status, q), now), cl, zl)

\* lines 1411-1441: quickValidate returns, then the early returns or the
\* start of the concurrent checks
QuickValidated(d) ==
    /\ frame[d].pc = "quick"
    /\ \E outcome \in ConnectionTestOutcomes, q \in QueryOutcomes,
          cl \in CacheLatencies, zl \in OracleLatencies :
          afterQuickValidate(d, connectionAfterQuick(frame[d].email, outcome), q, cl, zl)
    /\ StoreUnchanged
    /\ UNCHANGED <<now, config, ident, clientManager, requests, norm, batch, supabaseEnabled, supabase, sv, calls, saveLog, overlap>>

FrameOnly(d, f) ==
    /\ frame' = [frame EXCEPT ![d] = f]
    /\ StoreUnchanged
    /\ UNCHANGED <<now, config, ident, clientManager, requests, norm, batch, supabaseEnabled, supabase, supabaseConnectionStatus,
                   sv, calls, trace, saveLog, overlap>>

\* lines 740-762: the query answers without an error other than PGRST116;
\* .single() gives the row when exactly one matches
knownResolved(rows, t) ==
    [IdleKnown EXCEPT !.st = "settled",
                      !.found = (Cardinality(rows) = 1),
                      !.data = IF Cardinality(rows) = 1
                               THEN CHOOSE r \in rows : TRUE ELSE NULL,
                      !.settledAt = t]

\* a catch block that hands the error on; C16 fails under it
knownRethrown(t) == [IdleKnown EXCEPT !.st = "rejected", !.settledAt = t]

\* the catch block of isKnownValidEmail (lines 774-777)
knownCaught(t) == [IdleKnown EXCEPT !.st = "settled", !.settledAt = t]

\* lines 740-777: the query of isKnownValidEmail answers, with rows or with
\* an error
KnownRespond(d) ==
    /\ frame[d].pc = "pending"
    /\ frame[d].known.st = "wait"
    /\ frame[d].known.arrive = now
    /\ \E ok \in BOOLEAN :
          FrameOnly(d, [frame[d] EXCEPT
              !.known = IF ok
                        THEN knownResolved(rowsByEmail(frame[d].quickResult.currentEmail),
                                           now)
                        ELSE knownCaught(now)])

\* the timer of isKnownValidEmail's withTimeout fires (lines 412, 774-777)
KnownTimeout(d) ==
    /\ frame[d].pc = "pending"
    /\ frame[d].known.st = "wait"
    /\ frame[d].known.timer = now
    /\ FrameOnly(d, [frame[d] EXCEPT
            !.known = IF abortRejects("isKnownValidEmail")
                      THEN knownCaught(now)
                      ELSE [@ EXCEPT !.timer = NoTimer]])

\* lines 1245-1349: the request answers, with a reply or a failure
ZbRespond(d) ==
    /\ frame[d].pc = "pending"
    /\ frame[d].zb.st = "attempt"
    /\ frame[d].zb.arrive = now
    /\ LET f == frame[d]
           email == f.quickResult.currentEmail
       IN  \/ \E reply \in OracleReplies :
                 FrameOnly(d, [f EXCEPT !.zb =
                     [@ EXCEPT !.st = "settled", !.arrive = NoTimer, !.timer = NoTimer,
                               !.reply = reply,
                               !.value = mapOracleReply(email, reply, f.zb.retryCount, now)]])
           \/ \E message \in OracleFailures :
                 FrameOnly(d, [f EXCEPT !.zb = afterFailure(@, email, message, now)])

\* the timer of checkWithZeroBounce's withTimeout fires (lines 412, 1350)
ZbTimeout(d) ==
    /\ frame[d].pc = "pending"
    /\ frame[d].zb.st = "attempt"
    /\ frame[d].zb.timer = now
    /\ FrameOnly(d, [frame[d] EXCEPT
            !.zb = IF abortRejects("checkWithZeroBounce")
                   THEN afterFailure(@, frame[d].quickResult.currentEmail,
                                     ZeroBounceTimeoutMessage, now)
                   ELSE [@ EXCEPT !.timer = NoTimer]])

\* lines 1371-1374: the backoff is over, the check runs again
ZbBackoffDone(d) ==
    /\ frame[d].pc = "pending"
    /\ frame[d].zb.st = "backoff"
    /\ frame[d].zb.arrive = now
    /\ \E zl \in OracleLatencies :
          FrameOnly(d, [frame[d] EXCEPT
              !.zb = startAttempt(@, frame[d].zb.retryCount + 1, zl, now)])

\* a wait that ends with the first of the two checks; C19 fails under it
SettledEither(f) == f.known.st = "settled" \/ f.zb.st \in {"settled", "skipped"}

\* line 1438: Promise.allSettled resolves when both promises have settled
Settled(f) == f.known.st = "settled" /\ f.zb.st \in {"settled", "skipped"}

\* lines 1443-1663: Promise.allSettled returns and the results are merged
Join(d) ==
    /\ frame[d].pc = "pending"
    /\ Settled(frame[d])
    /\ \E q \in QueryOutcomes :
          LET f == frame[d]
              m == merge(f, DbOf(supabaseConnectionStatus, q), now)
          IN  CASE m.next = "return" ->
                       /\ frame' = [frame EXCEPT ![d] = Returned(f, m.result, m.path, now)]
                       /\ UNCHANGED <<sv, trace>>
                [] m.next = "recurse" ->
                       /\ d < MaxDepth
                       /\ frame' = [frame EXCEPT
                              ![d] = [f EXCEPT !.pc = "recursing",
                                               !.suggested = f.zb.value.suggestedEmail],
                              ![d + 1] = recursiveFrame(f.zb.value.suggestedEmail,
                                                        f.timeoutMs)]
                       /\ trace' = Bump("recursions")
                       /\ UNCHANGED sv
                [] m.next = "save" ->
                       /\ frame' = [frame EXCEPT ![d] =
                              [f EXCEPT !.pc = "saving", !.result = m.result,
                                        !.path = m.path]]
                       /\ sv' = [sv EXCEPT ![d] = saveEntry(f.email, m.result)]
                       /\ trace' = Bump("save")
    /\ StoreUnchanged
    /\ UNCHANGED <<now, config, ident, clientManager, requests, norm, batch, supabaseEnabled, supabase, supabaseConnectionStatus,
                   calls, saveLog, overlap>>

\* lines 1551-1572: the recursive call returns and its result is adopted
RecursionReturn(d) ==
    /\ d < MaxDepth
    /\ frame[d].pc = "recursing"
    /\ frame[d + 1].pc = "done"
    /\ frame' = [frame EXCEPT
           ![d] = Returned(@, adoptSuggested(frame[d + 1].result, frame[d].email),
                           "suggestion", now)]
    /\ StoreUnchanged
    /\ UNCHANGED <<now, config, ident, clientManager, requests, norm, batch, supabaseEnabled, supabase, supabaseConnectionStatus,
                   sv, calls, trace, saveLog, overlap>>

\* a save whose failure replaces the verdict; C21 fails under it
afterSaveEscalated(result, saveResult) ==
    IF saveResult.success THEN result
    ELSE [result EXCEPT !.status = "check_failed", !.recheckNeeded = TRUE]

\* a save whose failure rejects validateEmail: the caller gets no status;
\* C31 fails under it
afterSaveRejected(result, saveResult) ==
    IF saveResult.success THEN result ELSE [result EXCEPT !.status = NULL]

\* lines 1643-1663: saveResult is logged, a thrown error is logged, and the
\* result is returned as it was
afterSave(result, saveResult) == result

\* lines 1644-1663 and 1683-1697: saveValidationResult returns, whatever its
\* outcome, and validateEmail returns the result
FrameSaveReturn(d) ==
    /\ frame[d].pc = "saving"
    /\ sv[d].pc = "done"
    /\ frame' = [frame EXCEPT ![d] = Returned(frame[d],
                                               afterSave(frame[d].result, sv[d].out),
                                               frame[d].path, now)]
    /\ saveLog' = Append(saveLog, LogEntry(d))
    /\ sv' = [sv EXCEPT ![d] = IdleSave]
    /\ StoreUnchanged
    /\ UNCHANGED <<now, config, ident, clientManager, requests, norm, batch, supabaseEnabled, supabase, supabaseConnectionStatus,
                   calls, trace, overlap>>

\* The timer of validateEmail's withTimeout fires (line 412).  Were the await
\* of line 416 rejected, the catch block of lines 1670-1698 would return the
\* quick result, saving it first when it is valid.
DeadlineFire(d) ==
    /\ frame[d].pc \in {"pending", "recursing", "saving"}
    /\ frame[d].timer = now
    /\ LET f == frame[d]
       IN  IF abortRejects("validateEmail") /\ f.pc # "saving"
           THEN /\ IF supabaseEnabled /\ f.quickResult.status = "valid"
                   THEN /\ frame' = [g \in Frames |->
                               IF g < d THEN frame[g]
                               ELSE IF g > d THEN IdleFrame
                               ELSE [f EXCEPT !.pc = "saving", !.aborted = TRUE,
                                              !.timer = NoTimer,
                                              !.known = IdleKnown, !.zb = IdleZb,
                                              !.result = f.quickResult,
                                              !.path = "timeout_fallback"]]
                        /\ sv' = [sv EXCEPT ![d] = saveEntry(f.email, f.quickResult)]
                        /\ trace' = Bump("save")
                   ELSE /\ frame' = [g \in Frames |->
                               IF g < d THEN frame[g]
                               ELSE IF g > d THEN IdleFrame
                               ELSE [Returned(f, f.quickResult, "timeout_fallback", now)
                                        EXCEPT !.aborted = TRUE,
                                               !.known = IdleKnown, !.zb = IdleZb]]
                        /\ UNCHANGED <<sv, trace>>
           ELSE /\ frame' = [frame EXCEPT ![d] = [f EXCEPT !.aborted = TRUE,
                                                           !.timer = NoTimer]]
                /\ UNCHANGED <<sv, trace>>
    /\ StoreUnchanged
    /\ UNCHANGED <<now, config, ident, clientManager, requests, norm, batch, supabaseEnabled, supabase, supabaseConnectionStatus,
                   calls, saveLog, overlap>>

(***************************************************************************)
(* The clock.  Time passes only while every activation is suspended at a   *)
(* timer or a request; it moves to the next instant something is due.      *)
(***************************************************************************)
DueTimes(d) ==
    LET f == frame[d]
    IN  ({f.timer} \cup
         (IF f.pc = "pending"
          THEN {f.known.arrive, f.known.timer, f.zb.arrive, f.zb.timer}
          ELSE {})) \ {NoTimer}

AllDue == UNION {DueTimes(d) : d \in Frames}

Runnable ==
    \/ \E d \in Frames : frame[d].pc = "quick"
    \/ \E d \in Frames : frame[d].pc = "pending" /\ Settled(frame[d])
    \/ \E d \in Frames : frame[d].pc = "saving"
    \/ \E d \in Frames \ {MaxDepth} : frame[d].pc = "recursing" /\ frame[d + 1].pc = "done"

Tick ==
    /\ ~Runnable
    /\ AllDue # {}
    /\ \A t \in AllDue : t > now
    /\ now' = CHOOSE t \in AllDue : \A u \in AllDue : t <= u
    /\ StoreUnchanged
    /\ UNCHANGED <<config, ident, clientManager, requests, norm, batch, supabaseEnabled, supabase, supabaseConnectionStatus,
                   frame, sv, calls, trace, saveLog, overlap>>

(***************************************************************************)
(* The state after construction (lines 261-360) and the database the       *)
(* service finds.                                                          *)
(***************************************************************************)
\* no batch; log keeps, for every item processed, what the loop observed and
\* what validating the item invoked
IdleBatch ==
    [pc |-> "idle", viaHandler |-> FALSE, request |-> <<>>, emails |-> <<>>,
     skipZeroBounce |-> FALSE, timeoutPerEmailMs |-> 0, i |-> 1, results |-> <<>>,
     batchStartTime |-> 0, totalBatchTimeoutMs |-> 0, log |-> <<>>, response |-> <<>>]

\* no caller of the normaliser
IdleNorm == [pc |-> "idle", email |-> NULL, q |-> NULL, once |-> NULL, twice |-> NULL,
             quick |-> NULL]

\* Date.now() is above 2^31: a reading is millions * 10^6 + rest
Reading(millions, rest) == [millions |-> millions, rest |-> rest]

\* the clients of ClientManagerService and their dailyEmailLimit, a fixture
\* (README.md lines 160-176 read them from the environment)
MaxRequests == 3
MaxDays == 2
SmallDailyLimit == 1
LargeDailyLimit == 2
RequestIds == 1..MaxRequests
LimitedClients == {"00001", "00002"}
dailyEmailLimit(clientId) ==
    IF clientId = "00001" THEN SmallDailyLimit ELSE LargeDailyLimit

\* today is the date new Date() gives; a usage entry of date 0 is an entry
\* the map does not hold yet (README.md lines 214-222)
IdleClients ==
    [today |-> 1,
     clientsUsage |-> [c \in LimitedClients |-> [date |-> 0, emailCount |-> 0]]]

\* no request has arrived
IdleRequest == [pc |-> "idle", clientId |-> NULL, day |-> 0, status |-> 0]

IdleRequests == [r \in RequestIds |-> IdleRequest]

\* no id has been generated
IdleIdent == [epochTime |-> Reading(0, 0), advances |-> 0, attempts |-> <<>>]

Config(maxRetries, configured) ==
    [zeroBounceMaxRetries |-> maxRetries, removeGmailAliases |-> TRUE,
     zeroBounceConfigured |-> configured]

Configs == { Config(0, TRUE), Config(MaxConfiguredRetries, TRUE), Config(0, FALSE) }

StoredRow(id, email, bounce, t) ==
    [id |-> id, contact_id |-> id + 1, email |-> email, um_email |-> email,
     um_email_status |-> "Unchanged", um_bounce_status |-> bounce,
     date_last_um_check_epoch |-> t, writtenFrom |-> "valid"]


\* concurrent direct callers over an empty or a one-row table
InitSave ==
    /\ now = 0
    /\ config = Config(0, TRUE)
    /\ supabaseEnabled = TRUE
    /\ supabase = TRUE
    /\ supabaseConnectionStatus = "pending"
    /\ \/ email_validations = {} /\ contacts = {}
       \/ /\ email_validations = {StoredRow(1, "known@allowlisted.com", "Unlikely to bounce", 0)}
          /\ contacts = {2}
    /\ nextId = 3
    /\ frame = [d \in Frames |-> IdleFrame]
    /\ sv = [a \in Agents |-> IdleSave]
    /\ calls = 0
    /\ trace = IdleTrace
    /\ saveLog = <<>>
    /\ norm = IdleNorm
    /\ batch = IdleBatch
    /\ ident = IdleIdent
    /\ clientManager = IdleClients
    /\ requests = IdleRequests
    /\ overlap = FALSE

NextSave ==
    \/ \E w \in Writers, e \in SaveEmails, st \in PayloadStatuses :
          saveValidationResult(w, e, st)
    \/ \E w \in Writers : SaveStep(w)
    \/ \E w \in Writers : SaveReturn(w)

SpecSave == InitSave /\ [][NextSave]_vars

\* one caller at a time: validateEmail, or a direct saveValidationResult
InitStores ==
    { [rows |-> {}, contacts |-> {}],
      [rows |-> {StoredRow(1, "known@allowlisted.com", "Unlikely to bounce", 0)},
       contacts |-> {2}],
      [rows |-> {StoredRow(1, "slow@domain.com", "Unlikely to bounce", 0 - FreshnessMs)},
       contacts |-> {2}] }

Init ==
    /\ now = 0
    /\ config \in Configs
    /\ \E store \in InitStores :
          /\ email_validations = store.rows
          /\ contacts = store.contacts
          /\ \/ /\ supabaseEnabled = TRUE
                /\ supabase = TRUE
                /\ supabaseConnectionStatus = "pending"
             \/ /\ store.rows = {}
                /\ supabaseEnabled = FALSE
                /\ supabase = FALSE
                /\ supabaseConnectionStatus = "disabled"
    /\ nextId = 3
    /\ frame = [d \in Frames |-> IdleFrame]
    /\ sv = [a \in Agents |-> IdleSave]
    /\ calls = 0
    /\ trace = IdleTrace
    /\ saveLog = <<>>
    /\ norm = IdleNorm
    /\ batch = IdleBatch
    /\ ident = IdleIdent
    /\ clientManager = IdleClients
    /\ requests = IdleRequests
    /\ overlap = FALSE

DirectWriter == MaxDepth + 1

Next ==
    \/ \E e \in Inputs, skip \in BOOLEAN : validateEmail(e, skip)
    \/ \E d \in Frames : QuickValidated(d)
    \/ \E d \in Frames : KnownRespond(d)
    \/ \E d \in Frames : KnownTimeout(d)
    \/ \E d \in Frames : ZbRespond(d)
    \/ \E d \in Frames : ZbTimeout(d)
    \/ \E d \in Frames : ZbBackoffDone(d)
    \/ \E d \in Frames : Join(d)
    \/ \E d \in Frames : RecursionReturn(d)
    \/ \E d \in Frames : FrameSaveReturn(d)
    \/ \E d \in Frames : DeadlineFire(d)
    \/ \E a \in Frames \cup {DirectWriter} : SaveStep(a)
    \/ \E e \in SaveEmails, st \in PayloadStatuses :
          Quiet /\ calls < MaxCalls /\ saveValidationResult(DirectWriter, e, st)
    \/ SaveReturn(DirectWriter)
    \/ Tick

Spec == Init /\ [][Next]_vars

(***************************************************************************)
(* correctEmailTypos and quickValidate on their own: a caller hands an     *)
(* address to correctEmailTypos, hands the answer to it again, and hands   *)
(* the address to quickValidate, with the lookup tables answering the same *)
(* way each time.                                                          *)
(***************************************************************************)
NormInputs ==
    { "Test@Gmail.com ", "Test@Gmail.com", " a@x.com", "a b@x.com",
      "user@gmial.com", "user+tag@gmail.com", "user+tag@gmial.com", "+tag@gmail.com",
      "a@x.comau", "a@comau", "a+b@x.comau", "known@allowlisted.com",
      "a@bad.com", "not-an-email" }

\* which of the table queries answer without error
NormQueries ==
    { [typo |-> ty, tld |-> tl, invalid |-> TRUE, common |-> TRUE] :
          ty \in BOOLEAN, tl \in BOOLEAN }

NormDb == DbOf(supabaseConnectionStatus, norm.q)

InitNorm ==
    /\ now = 0
    /\ \E alias \in BOOLEAN : config = [Config(0, TRUE) EXCEPT !.removeGmailAliases = alias]
    /\ supabaseEnabled = TRUE
    /\ supabase = TRUE
    /\ supabaseConnectionStatus \in {"connected", "failed"}
    /\ email_validations = {}
    /\ contacts = {}
    /\ nextId = 3
    /\ frame = [d \in Frames |-> IdleFrame]
    /\ sv = [a \in Agents |-> IdleSave]
    /\ calls = 0
    /\ trace = IdleTrace
    /\ saveLog = <<>>
    /\ overlap = FALSE
    /\ \E email \in NormInputs, q \in NormQueries :
          norm = [IdleNorm EXCEPT !.pc = "given", !.email = email, !.q = q]
    /\ batch = IdleBatch
    /\ ident = IdleIdent
    /\ clientManager = IdleClients
    /\ requests = IdleRequests

NormOnly(n) ==
    /\ norm' = n
    /\ StoreUnchanged
    /\ UNCHANGED <<now, config, ident, clientManager, requests, batch, supabaseEnabled, supabase,
                   supabaseConnectionStatus, frame, sv, calls, trace, saveLog, overlap>>

\* await correctEmailTypos(email)
NormalizeOnce ==
    /\ norm.pc = "given"
    /\ NormOnly([norm EXCEPT !.pc = "once",
                             !.once = correctEmailTypos(norm.email, NormDb)])

\* await correctEmailTypos of the address the first call returned
NormalizeTwice ==
    /\ norm.pc = "once"
    /\ NormOnly([norm EXCEPT !.pc = "twice",
                             !.twice = correctEmailTypos(norm.once.email, NormDb)])

\* await quickValidate(email)
NormQuickValidate ==
    /\ norm.pc = "twice"
    /\ NormOnly([norm EXCEPT !.pc = "quick",
                             !.quick = quickValidate(norm.email, NormDb, now)])

NextNorm == NormalizeOnce \/ NormalizeTwice \/ NormQuickValidate

SpecNorm == InitNorm /\ [][NextNorm]_vars

(***************************************************************************)
(* validateBatch (lines 1701-1768) and the handler of api/validate/batch   *)
(* that calls it.  pc is where the activation stands:                      *)
(*   loop   at the head of the for loop                     line 1717      *)
(*   item   await this.validateEmail(email, ...)            line 1741      *)
(*   quick  in the inner loop of quickValidate calls        line 1732      *)
(*   done   returned                                                       *)
(* validateEmail catches what its checks throw (lines 1664-1698), so the   *)
(* catch block of lines 1748-1757 is never entered; and quickValidate has  *)
(* tested a pending connection before validateEmail saves, so the save of  *)
(* an item never starts with a connection test.                            *)
(***************************************************************************)
BatchCapMs == 9000
HandlerPerEmailMs == 1500
HandlerBudgetMs == 7000
DefaultPerEmailMs == 2000
LongPerEmailMs == 5000
MaxBatch == 3

\* line 1715
totalBatchTimeoutMs(n, timeoutPerEmailMs) == Min(BatchCapMs, n * timeoutPerEmailMs)

\* lines 1721-1722
remainingTimeMs(b, t) == b.totalBatchTimeoutMs - (t - b.batchStartTime)

\* a loop that never gives up full validation; C30 fails under it
runningOutNever(remaining, timeoutPerEmailMs) == FALSE

\* line 1725: remainingTimeMs < timeoutPerEmailMs / 2
runningOutOfTime(remaining, timeoutPerEmailMs) == 2 * remaining < timeoutPerEmailMs

\* line 1743
itemTimeoutMs(remaining, timeoutPerEmailMs) == Min(remaining, timeoutPerEmailMs)

\* batch.js line 103: Math.min(1500, 7000 / emails.length); the quotient is
\* above 1500 for every list of at most four addresses
handlerPerEmailMs(n) ==
    IF HandlerPerEmailMs * n <= HandlerBudgetMs THEN HandlerPerEmailMs
    ELSE HandlerBudgetMs \div n

\* batch.js lines 85-92
validFormatEmails(emails) == SelectSeq(emails, isValidEmailFormat)

invalidFormatEmails(emails) ==
    SelectSeq(emails, LAMBDA e : \A k \in DOMAIN validFormatEmails(emails) :
                                     validFormatEmails(emails)[k] # e)

\* batch.js lines 111-118
invalidResult(email) ==
    [originalEmail |-> email, currentEmail |-> email, formatValid |-> FALSE,
     status |-> "invalid", subStatus |-> "bad_format", recheckNeeded |-> FALSE]

invalidResults(emails) ==
    [k \in DOMAIN invalidFormatEmails(emails) |-> invalidResult(invalidFormatEmails(emails)[k])]

\* lines 1702-1715
startBatch(emails, skipZeroBounce, timeoutPerEmailMs, t) ==
    [IdleBatch EXCEPT !.pc = "loop", !.emails = emails,
                      !.skipZeroBounce = skipZeroBounce,
                      !.timeoutPerEmailMs = timeoutPerEmailMs,
                      !.batchStartTime = t,
                      !.totalBatchTimeoutMs = totalBatchTimeoutMs(Len(emails),
                                                                  timeoutPerEmailMs)]

BatchOnly(b) ==
    /\ batch' = b
    /\ StoreUnchanged
    /\ UNCHANGED <<now, config, ident, clientManager, requests, norm, supabaseEnabled, supabase, supabaseConnectionStatus,
                   frame, sv, calls, trace, saveLog, overlap>>

\* a caller awaits validateBatch(emails, { skipZeroBounce, timeoutPerEmailMs })
validateBatch(emails, skipZeroBounce, timeoutPerEmailMs) ==
    /\ batch.pc = "idle"
    /\ BatchOnly(startBatch(emails, skipZeroBounce, timeoutPerEmailMs, now))

\* batch.js lines 84-105: the handler filters the list and awaits validateBatch
handler(emails, skipZeroBounce) ==
    /\ batch.pc = "idle"
    /\ BatchOnly([startBatch(validFormatEmails(emails), skipZeroBounce,
                             handlerPerEmailMs(Len(emails)), now)
                     EXCEPT !.viaHandler = TRUE, !.request = emails])

\* what the loop observed at the head of an item, and what it did with it
Observed(email, remaining, left, timeoutMs, full) ==
    [email |-> email, observed |-> TRUE, remaining |-> remaining, left |-> left,
     timeoutMs |-> timeoutMs, full |-> full, invoked |-> IdleTrace]

\* lines 1717-1745: the head of the loop for item i; either the inner loop
\* is entered or validateEmail is called
BatchItem ==
    /\ batch.pc = "loop"
    /\ batch.i <= Len(batch.emails)
    /\ IF runningOutOfTime(remainingTimeMs(batch, now), batch.timeoutPerEmailMs)
       THEN /\ batch' = [batch EXCEPT !.pc = "quick"]
            /\ UNCHANGED <<frame, trace>>
       ELSE /\ batch' = [batch EXCEPT
                   !.pc = "item",
                   !.log = Append(@, Observed(batch.emails[batch.i],
                                              remainingTimeMs(batch, now),
                                              Len(batch.emails) - batch.i + 1,
                                              itemTimeoutMs(remainingTimeMs(batch, now),
                                                            batch.timeoutPerEmailMs),
                                              TRUE))]
            /\ frame' = [d \in Frames |->
                            IF d = 0
                            THEN [IdleFrame EXCEPT
                                     !.pc = "quick", !.email = batch.emails[batch.i],
                                     !.skipZeroBounce = batch.skipZeroBounce,
                                     !.timeoutMs =
                                         itemTimeoutMs(remainingTimeMs(batch, now),
                                                       batch.timeoutPerEmailMs)]
                            ELSE IdleFrame]
            /\ trace' = IdleTrace
    /\ StoreUnchanged
    /\ UNCHANGED <<now, config, ident, clientManager, requests, norm, supabaseEnabled, supabase, supabaseConnectionStatus,
                   sv, calls, saveLog, overlap>>

\* line 1746: validateEmail has returned
BatchCollect ==
    /\ batch.pc = "item"
    /\ frame[0].pc = "done"
    /\ batch' = [batch EXCEPT !.pc = "loop", !.i = @ + 1,
                              !.results = Append(@, frame[0].result),
                              !.log[Len(batch.log)].invoked = trace]
    /\ frame' = [d \in Frames |-> IdleFrame]
    /\ StoreUnchanged
    /\ UNCHANGED <<now, config, ident, clientManager, requests, norm, supabaseEnabled, supabase, supabaseConnectionStatus,
                   sv, calls, trace, saveLog, overlap>>

\* lines 1732-1734: one quickValidate of the inner loop; the first item of
\* the inner loop is the one whose remaining time was observed
quickValidated(status, q) ==
    /\ supabaseConnectionStatus' = status
    /\ batch' = [batch EXCEPT
           !.i = @ + 1,
           !.results = Append(@, quickValidate(batch.emails[batch.i], DbOf(status, q), now)),
           !.log = Append(@, [Observed(batch.emails[batch.i],
                                       remainingTimeMs(batch, now),
                                       Len(batch.emails) - batch.i + 1, NoTimer, FALSE)
                                 EXCEPT !.observed = (batch.log = <<>> \/
                                                      batch.log[Len(batch.log)].full)])]

BatchQuickValidate ==
    /\ batch.pc = "quick"
    /\ batch.i <= Len(batch.emails)
    /\ \E outcome \in ConnectionTestOutcomes, q \in QueryOutcomes :
          quickValidated(connectionAfterQuick(batch.emails[batch.i], outcome), q)
    /\ StoreUnchanged
    /\ UNCHANGED <<now, config, ident, clientManager, requests, norm, supabaseEnabled, supabase, frame, sv, calls, trace,
                   saveLog, overlap>>

\* line 1767, and batch.js lines 108-121 when the handler made the call
BatchReturn ==
    /\ batch.pc \in {"loop", "quick"}
    /\ batch.i > Len(batch.emails)
    /\ BatchOnly([batch EXCEPT
           !.pc = "done",
           !.response = IF batch.viaHandler
                        THEN batch.results \o invalidResults(batch.request)
                        ELSE batch.results])

\* the lists a caller hands over
BatchLists ==
    { <<"slow@domain.com">>,
      <<"known@allowlisted.com", "known@allowlisted.com">>,
      <<"known@allowlisted.com", "a@bad.com", "slow@domain.com">>,
      <<"not-an-email", "known@allowlisted.com">> }

\* longer lists are validated with skipZeroBounce
MaxOracleBatch == 1

BatchCalls ==
    { c \in [emails : BatchLists, skipZeroBounce : BOOLEAN] :
          /\ Len(c.emails) <= MaxBatch
          /\ c.skipZeroBounce \/ Len(c.emails) <= MaxOracleBatch }

InitBatch ==
    /\ now = 0
    /\ config = Config(0, TRUE)
    /\ supabaseEnabled = TRUE
    /\ supabase = TRUE
    /\ supabaseConnectionStatus = "pending"
    /\ email_validations = {}
    /\ contacts = {}
    /\ nextId = 3
    /\ frame = [d \in Frames |-> IdleFrame]
    /\ sv = [a \in Agents |-> IdleSave]
    /\ calls = 0
    /\ trace = IdleTrace
    /\ saveLog = <<>>
    /\ overlap = FALSE
    /\ norm = IdleNorm
    /\ batch = IdleBatch
    /\ ident = IdleIdent
    /\ clientManager = IdleClients
    /\ requests = IdleRequests

NextBatch ==
    \/ \E c \in BatchCalls, per \in {DefaultPerEmailMs, LongPerEmailMs} :
          validateBatch(c.emails, c.skipZeroBounce, per)
    \/ \E c \in BatchCalls : handler(c.emails, c.skipZeroBounce)
    \/ BatchItem
    \/ BatchCollect
    \/ BatchQuickValidate
    \/ BatchReturn
    \/ \E d \in Frames : QuickValidated(d)
    \/ \E d \in Frames : KnownRespond(d)
    \/ \E d \in Frames : KnownTimeout(d)
    \/ \E d \in Frames : ZbRespond(d)
    \/ \E d \in Frames : ZbTimeout(d)
    \/ \E d \in Frames : ZbBackoffDone(d)
    \/ \E d \in Frames : Join(d)
    \/ \E d \in Frames : RecursionReturn(d)
    \/ \E d \in Frames : FrameSaveReturn(d)
    \/ \E d \in Frames : DeadlineFire(d)
    \/ \E a \in Frames : SaveLookup(a)
    \/ \E a \in Frames : SaveUpdate(a)
    \/ \E a \in Frames : SaveCreateContact(a)
    \/ \E a \in Frames : SaveInsertRecord(a)
    \/ Tick

SpecBatch == InitBatch /\ [][NextBatch]_vars

(***************************************************************************)
(* generateUmCheckId (lines 444-460).  The id is a string built from the   *)
(* decimal digits of Date.now(), the client id, a check digit and the      *)
(* version of the service.                                                 *)
(***************************************************************************)
\* String(n) for a natural number
RECURSIVE DecimalString(_)
DecimalString(n) ==
    IF n < 10 THEN Char(DigitChars, n + 1)
    ELSE DecimalString(n \div 10) \o Char(DigitChars, (n % 10) + 1)

\* String.prototype.padStart
RECURSIVE PadStart(_, _, _)
PadStart(s, width, c) == IF Len(s) >= width THEN s ELSE PadStart(c \o s, width, c)

\* parseInt of one decimal digit
DigitValue(c) == (CHOOSE i \in 1..Len(DigitChars) : Char(DigitChars, i) = c) - 1

\* parseInt of a string of decimal digits
RECURSIVE ParseInt(_)
ParseInt(s) ==
    IF s = "" THEN 0
    ELSE 10 * ParseInt(SubSeq(s, 1, Len(s) - 1)) + DigitValue(Char(s, Len(s)))

\* line 454: [...s].reduce((acc, digit) => acc + parseInt(digit), 0)
RECURSIVE DigitSum(_)
DigitSum(s) ==
    IF s = "" THEN 0 ELSE DigitValue(Char(s, 1)) + DigitSum(SubSeq(s, 2, Len(s)))

\* String(epochTime) of a reading
EpochString(t) == DecimalString(t.millions) \o PadStart(DecimalString(t.rest), 6, "0")

\* s.slice(-n)
SliceLast(s, n) == IF Len(s) <= n THEN s ELSE SubSeq(s, Len(s) - n + 1, Len(s))

\* s.slice(0, n)
SliceFirst(s, n) == SubSeq(s, 1, Min(n, Len(s)))

\* this.clientId and this.umessyVersion of a service constructed without
\* them (lines 355-356)
DefaultClientId == "00001"
umessyVersion == "100"

\* lines 444-460
generateUmCheckId(customClientId, epochTime) ==
    LET lastSixDigits == SliceLast(EpochString(epochTime), 6)
        clientId == IF Truthy(customClientId) THEN customClientId ELSE DefaultClientId
        firstThreeDigits == SliceFirst(EpochString(epochTime), 3)
        sum == DigitSum(firstThreeDigits)
        checkDigit == PadStart(DecimalString(sum * ParseInt(clientId)), 3, "0")
    IN  lastSixDigits \o clientId \o checkDigit \o umessyVersion

\* the clock t ms later
Later(t, ms) ==
    Reading(t.millions + (t.rest + ms) \div 1000000, (t.rest + ms) % 1000000)

MaxAttempts == 3
MaxAdvances == 2
ClientIds == {NULL, "00001", "00002"}
ClockReadings == {Reading(1762300, 0), Reading(1762300, 999999)}
ClockSteps == {1, 1000000}

IdentOnly(v) ==
    /\ ident' = v
    /\ StoreUnchanged
    /\ UNCHANGED <<now, config, clientManager, requests, norm, batch, supabaseEnabled,
                   supabase, supabaseConnectionStatus, frame, sv, calls, trace,
                   saveLog, overlap>>

\* a validation attempt asks for its um_check_id (lines 1116, 1135, 1172)
GenerateUmCheckId(customClientId) ==
    /\ Len(ident.attempts) < MaxAttempts
    /\ IdentOnly([ident EXCEPT !.attempts =
            Append(@, [clientId |-> customClientId, epochTime |-> ident.epochTime,
                       um_check_id |-> generateUmCheckId(customClientId,
                                                         ident.epochTime)])])

\* time passes between two attempts
ClockAdvance(ms) ==
    /\ ident.advances < MaxAdvances
    /\ IdentOnly([ident EXCEPT !.epochTime = Later(@, ms), !.advances = @ + 1])

InitIdent ==
    /\ now = 0
    /\ config = Config(0, TRUE)
    /\ supabaseEnabled = TRUE
    /\ supabase = TRUE
    /\ supabaseConnectionStatus = "connected"
    /\ email_validations = {}
    /\ contacts = {}
    /\ nextId = 3
    /\ frame = [d \in Frames |-> IdleFrame]
    /\ sv = [a \in Agents |-> IdleSave]
    /\ calls = 0
    /\ trace = IdleTrace
    /\ saveLog = <<>>
    /\ overlap = FALSE
    /\ norm = IdleNorm
    /\ batch = IdleBatch
    /\ \E t \in ClockReadings : ident = [IdleIdent EXCEPT !.epochTime = t]
    /\ clientManager = IdleClients
    /\ requests = IdleRequests

NextIdent ==
    \/ \E c \in ClientIds : GenerateUmCheckId(c)
    \/ \E ms \in ClockSteps : ClockAdvance(ms)

SpecIdent == InitIdent /\ [][NextIdent]_vars

(***************************************************************************)
(* The daily limit of the single-address handler (part_009, lines          *)
(* 153-360) and ClientManagerService (README.md, lines 211-280).  The      *)
(* handler checks the limit, awaits the validation and increments the      *)
(* count afterwards; the validation does not touch the counters.           *)
(***************************************************************************)
\* resetClientUsageIfNewDay (README.md lines 211-232)
resetClientUsageIfNewDay(cm, clientId) ==
    IF cm.clientsUsage[clientId].date # cm.today
    THEN [cm EXCEPT !.clientsUsage[clientId] = [date |-> cm.today, emailCount |-> 0]]
    ELSE cm

\* checkEmailRateLimit (README.md lines 235-264), after its reset: limited
limited(cm, clientId) ==
    cm.clientsUsage[clientId].emailCount >= dailyEmailLimit(clientId)

\* incrementEmailCount (README.md lines 267-280)
incrementEmailCount(cm, clientId) ==
    [resetClientUsageIfNewDay(cm, clientId) EXCEPT
        !.clientsUsage[clientId].emailCount = @ + 1]

LimitOnly ==
    /\ StoreUnchanged
    /\ UNCHANGED <<now, config, ident, norm, batch, supabaseEnabled, supabase,
                   supabaseConnectionStatus, frame, sv, calls, trace, saveLog,
                   overlap>>

\* part_009 lines 153-265: a request of a known client arrives; the handler
\* checks the limit, answers 429, answers a malformed address at once, or
\* starts the validation and awaits it (line 284)
HandlerReceive(r, clientId, formatValid) ==
    /\ requests[r].pc = "idle"
    /\ \A q \in RequestIds : q < r => requests[q].pc # "idle"
    /\ LET cm == resetClientUsageIfNewDay(clientManager, clientId)
           req == [IdleRequest EXCEPT !.clientId = clientId, !.day = cm.today]
       IN  IF limited(cm, clientId)
           THEN /\ clientManager' = cm
                /\ requests' = [requests EXCEPT ![r] =
                                    [req EXCEPT !.pc = "responded", !.status = 429]]
           ELSE IF ~formatValid
           THEN /\ clientManager' = incrementEmailCount(cm, clientId)
                /\ requests' = [requests EXCEPT ![r] =
                                    [req EXCEPT !.pc = "responded", !.status = 200]]
           ELSE /\ clientManager' = cm
                /\ requests' = [requests EXCEPT ![r] = [req EXCEPT !.pc = "validating"]]
    /\ LimitOnly

\* part_009 lines 284-325 and 326-370: the race of validateEmail and the
\* 9.5 s timer is over (with a result, or with the quickValidate fallback of
\* the catch block); the count is incremented and the request answered
HandlerRespond(r) ==
    /\ requests[r].pc = "validating"
    /\ clientManager' = incrementEmailCount(clientManager, requests[r].clientId)
    /\ requests' = [requests EXCEPT ![r] = [@ EXCEPT !.pc = "responded", !.status = 200]]
    /\ LimitOnly

\* midnight (UTC) passes
NewDay ==
    /\ clientManager.today < MaxDays
    /\ clientManager' = [clientManager EXCEPT !.today = @ + 1]
    /\ UNCHANGED requests
    /\ LimitOnly

InitLimit ==
    /\ now = 0
    /\ config = Config(0, TRUE)
    /\ supabaseEnabled = TRUE
    /\ supabase = TRUE
    /\ supabaseConnectionStatus = "connected"
    /\ email_validations = {}
    /\ contacts = {}
    /\ nextId = 3
    /\ frame = [d \in Frames |-> IdleFrame]
    /\ sv = [a \in Agents |-> IdleSave]
    /\ calls = 0
    /\ trace = IdleTrace
    /\ saveLog = <<>>
    /\ overlap = FALSE
    /\ norm = IdleNorm
    /\ batch = IdleBatch
    /\ ident = IdleIdent
    /\ clientManager = IdleClients
    /\ requests = IdleRequests

NextLimit ==
    \/ \E r \in RequestIds, c \in LimitedClients, formatValid \in BOOLEAN :
          HandlerReceive(r, c, formatValid)
    \/ \E r \in RequestIds : HandlerRespond(r)
    \/ NewDay

SpecLimit == InitLimit /\ [][NextLimit]_vars

(***************************************************************************)
(* Properties.                                                             *)
(***************************************************************************)
Done(d) == frame[d].pc = "done"

\* C1.  Format gate: a call of validateEmail whose address fails
\* isValidEmailFormat returns status invalid, subStatus bad_format and
\* recheckNeeded false, and during the call isKnownValidEmail,
\* checkWithZeroBounce and saveValidationResult are never invoked.
C1_FormatGate ==
    \A d \in Frames :
        frame[d].pc \notin {"idle", "quick"} /\ ~isValidEmailFormat(frame[d].email) =>
            /\ Done(d)
            /\ frame[d].result.status = "invalid"
            /\ frame[d].result.subStatus = "bad_format"
            /\ frame[d].result.recheckNeeded = FALSE
            /\ frame[d].known.st = "none"
            /\ frame[d].zb.st = "none"
            /\ sv[d].pc = "idle"
            /\ d = 0 => trace = IdleTrace

C1_Witness ==
    /\ Done(0)
    /\ frame[0].email = "not-an-email"
    /\ frame[0].result.subStatus = "bad_format"

\* C2.  Only valid results are persisted: every record of the store was
\* written from a result whose status is valid, and a call of
\* saveValidationResult with a result of any other status returns without
\* reaching the database.
C2_OnlyValidPersisted ==
    /\ \A r \in email_validations : r.writtenFrom = "valid"
    /\ \A a \in Agents : InFlight(a) => sv[a].result.status = "valid"
    /\ \A a \in Agents :
          sv[a].pc = "done" /\ sv[a].result.status # "valid" =>
              sv[a].out = SaveOut(FALSE, NULL, "Email is not valid")
    /\ \A i \in 1..Len(saveLog) :
          saveLog[i].status # "valid" =>
              ~saveLog[i].success /\ saveLog[i].operation = NULL

C2_Witness ==
    /\ Done(0)
    /\ \E r \in email_validations : r.id >= 3 /\ r.email = frame[0].email
    /\ \E i \in 1..Len(saveLog) : saveLog[i].status = "valid" /\ saveLog[i].success

\* C3.  At most one record per address: the store never holds two records of
\* one address, however calls of saveValidationResult interleave.
C3_OneRecordPerAddress ==
    \A e \in SaveEmails : Cardinality(rowsByEmail(e)) <= 1

\* C4.  Idempotent persistence: of two calls of saveValidationResult made one
\* after the other with the same address and valid results, both successful,
\* the second performs an update, and the store holds exactly one record of
\* the address, owned by a contact of the store.
C4_SequentialIdempotent ==
    ~overlap =>
        \A i, j \in 1..Len(saveLog) :
            /\ i < j
            /\ saveLog[i].email = saveLog[j].email
            /\ saveLog[i].success
            /\ saveLog[j].success
            => /\ saveLog[j].operation = "update"
               /\ Cardinality(rowsByEmail(saveLog[j].email)) = 1
               /\ \A r \in rowsByEmail(saveLog[j].email) : r.contact_id \in contacts

C4_Witness ==
    /\ ~overlap
    /\ Len(saveLog) = 2
    /\ saveLog[1].email = saveLog[2].email
    /\ saveLog[1].success /\ saveLog[1].operation = "insert"
    /\ saveLog[2].success

\* the cancellation overhead allowed to a return after the deadline, in ms
CancellationOverheadMs == 100

\* C5.  Deadline respected: validateEmail returns no later than its deadline
\* timer fires, plus the cancellation overhead.
C5_DeadlineRespected ==
    \A d \in Frames :
        Done(d) /\ frame[d].deadlineAt # NoTimer =>
            frame[d].returnedAt <= frame[d].deadlineAt + CancellationOverheadMs

\* C6.  Deadline fallback verdict: a call whose deadline timer fired before
\* the database check and the ZeroBounce check completed returns the result
\* of quickValidate, with recheckNeeded true.
C6_DeadlineFallback ==
    \A d \in Frames :
        Done(d) /\ frame[d].aborted =>
            frame[d].result = [frame[d].quickResult EXCEPT !.recheckNeeded = TRUE]

\* C7.  At most one recursion: within one top-level call validateEmail calls
\* itself at most once; a suggestion the oracle makes during the
\* re-validation starts no further call.
C7_AtMostOneRecursion ==
    /\ trace.recursions <= 1
    /\ \A d \in Frames : d >= 2 => frame[d].pc = "idle"
    /\ \A d \in Frames : frame[d].pc # "idle" => frame[d].isRetry = (d = 1)

C7_Witness ==
    /\ Done(0)
    /\ Done(1)
    /\ frame[1].zb.st = "settled"
    /\ Truthy(frame[1].zb.value.suggestedEmail)

Suggested(d) ==
    /\ frame[d].zb.st = "settled"
    /\ Truthy(frame[d].zb.value.suggestedEmail)

\* the returned result is that of the re-validation of the suggested address,
\* relabelled for the caller
AdoptsRecursiveResult(d) ==
    /\ frame[d + 1].pc = "done"
    /\ frame[d + 1].email = frame[d].zb.value.suggestedEmail
    /\ frame[d].result.originalEmail = frame[d].email
    /\ frame[d].result.wasCorrected = TRUE
    /\ frame[d].result.currentEmail = frame[d + 1].result.currentEmail
    /\ frame[d].result.status = frame[d + 1].result.status

\* C8 as stated.  Whenever the oracle suggests an address on a call that is
\* no re-validation, the result returned is the relabelled result of
\* re-validating the suggested address.
C8_AdoptionAlways ==
    Done(0) /\ Suggested(0) => AdoptsRecursiveResult(0)

\* C8.  Adoption of the recursive result: when the oracle suggests an address
\* on a call that is no re-validation, the database check found no record
\* younger than seven days and the suggested domain is not in
\* invalid_domains, the result returned is the result of re-validating the
\* suggested address, with originalEmail the caller's input, wasCorrected
\* true, and currentEmail and status those of the recursive outcome.
C8_AdoptionUnlessCachedOrDenied ==
    /\ Done(0)
    /\ Suggested(0)
    /\ ~isFresh(frame[0].known, frame[0].returnedAt)
    /\ DomainOf(frame[0].zb.value.suggestedEmail) \notin invalid_domains
    => AdoptsRecursiveResult(0)

C8_Witness ==
    /\ Done(0)
    /\ Suggested(0)
    /\ frame[0].path = "suggestion"
    /\ frame[0].email = "typo@x.con"
    /\ frame[0].result.currentEmail = "fixed@x.com"
    /\ frame[1].result.originalEmail = "fixed@x.com"

\* C9 as stated.  One call of checkWithZeroBounce attempts the oracle at
\* most twice.
C9_AtMostTwoAttempts ==
    \A d \in Frames : frame[d].zb.attempts <= 2

\* C9.  Bounded oracle retry: one call of checkWithZeroBounce attempts the
\* oracle at most 1 + zeroBounceMaxRetries times (twice with the default of
\* one retry), every retry follows the failure of the attempt before it, and
\* when the last attempt also fails the call returns check_failed with
\* recheckNeeded true.
C9_BoundedRetry ==
    \A d \in Frames :
        /\ frame[d].zb.attempts <= 1 + zeroBounceMaxRetries
        /\ config.zeroBounceMaxRetries \in {0, 1} => frame[d].zb.attempts <= 2
        /\ frame[d].zb.st = "attempt" =>
              Len(frame[d].zb.failures) = frame[d].zb.attempts - 1
        /\ /\ frame[d].zb.st = "settled"
           /\ frame[d].zb.attempts >= 1
           /\ Len(frame[d].zb.failures) = frame[d].zb.attempts
           => /\ frame[d].zb.value.status = "check_failed"
              /\ frame[d].zb.value.recheckNeeded = TRUE

C9_Witness ==
    \E d \in Frames :
        /\ frame[d].zb.st = "settled"
        /\ frame[d].zb.attempts = 2
        /\ Len(frame[d].zb.failures) = 2
        /\ frame[d].zb.value.status = "check_failed"

\* C10.  Retry triggers: a first attempt that fails with a 5xx response is
\* followed by a second attempt before check_failed is returned, as one that
\* times out is.
C10_RetryOnServerError ==
    \A d \in Frames :
        /\ frame[d].zb.st = "settled"
        /\ Len(frame[d].zb.failures) >= 1
        /\ frame[d].zb.failures[1] \in HttpFailures \cup {ZeroBounceTimeoutMessage}
        => frame[d].zb.attempts >= 2

AllTimedOut(zb) ==
    /\ zb.st = "settled"
    /\ zb.attempts >= 2
    /\ Len(zb.failures) = zb.attempts
    /\ \A i \in 1..Len(zb.failures) : zb.failures[i] = ZeroBounceTimeoutMessage

\* C11.  Exhausted oracle: when every attempt of the oracle timed out (the
\* first and the retry), the database check found no record and quickValidate
\* gave status unknown, validateEmail returns status check_failed with
\* recheckNeeded true, and nothing is saved.
C11_ExhaustedIsCheckFailed ==
    \A d \in Frames :
        /\ Done(d)
        /\ AllTimedOut(frame[d].zb)
        /\ ~frame[d].known.found
        /\ frame[d].quickResult.status = "unknown"
        => /\ frame[d].result.status = "check_failed"
           /\ frame[d].result.recheckNeeded = TRUE
           /\ sv[d].pc = "idle"
           /\ d = 0 => trace.save = 0

\* the statuses a result of checkWithZeroBounce carries
BounceStatuses == {"valid", "invalid", "unknown", "check_failed", "check_skipped"}

\* C12.  The oracle client never throws: whatever the oracle does (timeout,
\* non-OK response, body that is no JSON, unknown status, no credential),
\* checkWithZeroBounce is either still at work or has resolved to a result
\* that carries a status; it never settles as a rejection.
C12_OracleNeverThrows ==
    \A d \in Frames :
        /\ frame[d].zb.st \in {"none", "skipped", "attempt", "backoff", "settled"}
        /\ frame[d].zb.st = "settled" => frame[d].zb.value.status \in BounceStatuses
        /\ frame[d].zb.st = "attempt" =>
              Len(frame[d].zb.failures) < frame[d].zb.attempts
        /\ frame[d].pc \in {"recursing", "saving", "done"} /\ frame[d].path # NULL
              /\ frame[d].known.st = "settled" =>
              frame[d].zb.st \in {"skipped", "settled"}

C12_Witness ==
    \E d \in Frames :
        /\ frame[d].zb.st = "settled"
        /\ frame[d].zb.failures = <<"Unexpected token < in JSON at position 0">>
        /\ frame[d].zb.value.status = "check_failed"
        /\ frame[d].zb.value.error = "Unexpected token < in JSON at position 0"

\* C13.  Oracle status mapping: valid gives valid with recheckNeeded false;
\* invalid gives invalid with the oracle's sub-status; catch-all and unknown
\* give unknown with recheckNeeded true; spamtrap and abuse give invalid with
\* that sub-status; any other status gives check_failed with recheckNeeded
\* true; and suggestedEmail is set exactly when the oracle sent did_you_mean.
C13_StatusMapping ==
    \A d \in Frames :
        frame[d].zb.st = "settled" /\ frame[d].zb.reply # NoReply =>
            LET r == frame[d].zb.reply
                v == frame[d].zb.value
            IN  /\ r.status = "valid" => v.status = "valid" /\ ~v.recheckNeeded
                /\ r.status = "invalid" =>
                      v.status = "invalid" /\ v.subStatus = r.sub_status
                /\ r.status \in {"catch-all", "unknown"} =>
                      v.status = "unknown" /\ v.recheckNeeded
                /\ r.status \in {"spamtrap", "abuse"} =>
                      v.status = "invalid" /\ v.subStatus = r.status
                /\ r.status \notin {"valid", "invalid", "catch-all", "unknown",
                                    "spamtrap", "abuse"} =>
                      v.status = "check_failed" /\ v.recheckNeeded
                /\ (v.suggestedEmail # NULL) <=> Truthy(r.did_you_mean)

C13_Witness ==
    \E d \in Frames :
        /\ frame[d].zb.st = "settled"
        /\ frame[d].zb.reply.status = "do_not_mail"
        /\ frame[d].zb.value.status = "check_failed"

\* what quickValidate returned to the activation (line 1411), also when it
\* was returned as it was
QuickResultOf(d) ==
    IF frame[d].path \in {"bad_format", "invalid_domain"}
    THEN frame[d].result ELSE frame[d].quickResult

\* C14: when the domain classifier answers "denylisted" for the address as
\* quickValidate normalised it, validateEmail returns status invalid,
\* subStatus invalid_domain, recheckNeeded false, and that call has started
\* neither the cache lookup nor the oracle check nor a save
C14_DenylistShortCircuit ==
    \A d \in Frames :
        frame[d].pc \notin {"idle", "quick"} /\ QuickResultOf(d).isInvalidDomain =>
            /\ Done(d)
            /\ frame[d].path = "invalid_domain"
            /\ frame[d].result.status = "invalid"
            /\ frame[d].result.subStatus = "invalid_domain"
            /\ frame[d].result.recheckNeeded = FALSE
            /\ frame[d].known.st = "none"
            /\ frame[d].zb.st = "none"
            /\ sv[d].pc = "idle"
            /\ (d = 0 => trace = IdleTrace)

C14_Witness ==
    /\ Done(0)
    /\ frame[0].email = "a@bad.com"
    /\ QuickResultOf(0).isInvalidDomain
    /\ frame[0].result.subStatus = "invalid_domain"

\* the oracle check was skipped, or ended without a verdict
OracleUnavailable(zb) ==
    \/ zb.st = "skipped"
    \/ zb.st = "settled" /\ zb.value.status \in {"check_skipped", "check_failed"}

\* C15: when the domain classifier answers "allowlisted", the cache lookup
\* finds nothing, and the oracle is skipped, not configured, or has failed in
\* every attempt, validateEmail returns status valid
C15_AllowlistSufficient ==
    \A d \in Frames :
        /\ Done(d)
        /\ QuickResultOf(d).domainValid
        /\ ~frame[d].known.found
        /\ OracleUnavailable(frame[d].zb)
        => frame[d].result.status = "valid"

C15_Witness ==
    /\ Done(0)
    /\ QuickResultOf(0).domainValid
    /\ ~frame[0].known.found
    /\ frame[0].zb.st = "settled"
    /\ frame[0].zb.value.status = "check_failed"
    /\ Len(frame[0].zb.failures) = frame[0].zb.attempts
    /\ frame[0].result.status = "valid"

\* the instant the activation started its two checks (line 1438)
FanOutAt(d) == frame[d].deadlineAt - frame[d].timeoutMs

\* the lookup could not be made, or its timer ended it
CacheUnavailable(d) ==
    /\ frame[d].known.st = "settled"
    /\ \/ ~(supabaseEnabled /\ supabase)
       \/ frame[d].known.settledAt = FanOutAt(d) + SupabaseTimeoutMs

\* the result of lines 1443-1591 for a lookup that found no row
MissResult(f) ==
    IF f.zb.st = "settled"
    THEN withBounceCheck(withKnownValid(f.quickResult, IdleKnown), f.zb.value)
    ELSE withKnownValid(f.quickResult, IdleKnown)

\* C16: isKnownValidEmail never rejects; a lookup that timed out, failed or
\* could not be made resolves to found = false, and validateEmail then returns
\* what it returns for an address without a record: no cache hit, a status of
\* valid, invalid or unknown, and the merged result of a miss
C16_CacheFailuresAbsorbed ==
    \A d \in Frames :
        /\ frame[d].known.st \in {"none", "wait", "settled"}
        /\ CacheUnavailable(d) => ~frame[d].known.found
        /\ Done(d) /\ frame[d].known.st = "settled" /\ ~frame[d].known.found =>
               /\ frame[d].path \in {"merged", "suggestion", "suggestion_rejected"}
               /\ frame[d].result.status \in {"valid", "invalid", "unknown"}
               /\ frame[d].path # "suggestion" => ~frame[d].result.isKnownValid
               /\ frame[d].path = "merged" => frame[d].result = MissResult(frame[d])

C16_Witness ==
    /\ Done(0)
    /\ supabaseEnabled /\ supabase
    /\ CacheUnavailable(0)
    /\ frame[0].path = "merged"
    /\ frame[0].result = MissResult(frame[0])

\* the lookup found a record checked less than the freshness window before
\* the activation returned
FreshHit(d) ==
    /\ frame[d].known.found
    /\ frame[d].returnedAt - frame[d].known.data.date_last_um_check_epoch < FreshnessMs

StepsNamed(result) == { result.validationSteps[i].step : i \in DOMAIN result.validationSteps }

\* C17: when the cache lookup found a record younger than the freshness
\* window, validateEmail returns the verdict of the record whatever the oracle
\* check resolved to, takes nothing from the oracle's result and makes no
\* recursive call; a record older than the window does not end the call
C17_FreshHitDecides ==
    \A d \in Frames :
        Done(d) /\ frame[d].known.found =>
            IF FreshHit(d)
            THEN /\ frame[d].path = "cache_hit"
                 /\ frame[d].result.status =
                        (IF frame[d].known.data.um_bounce_status = "Unlikely to bounce"
                         THEN "valid" ELSE "invalid")
                 /\ frame[d].result.isKnownValid
                 /\ frame[d].result.recheckNeeded = FALSE
                 /\ frame[d].result = withKnownValid(frame[d].quickResult, frame[d].known)
                 /\ StepsNamed(frame[d].result) \cap
                        {"zerobounce_check", "zerobounce_suggestion"} = {}
                 /\ d < MaxDepth => frame[d + 1].pc = "idle"
                 /\ d = 0 => trace.recursions = 0 /\ trace.save = 0
            ELSE frame[d].path # "cache_hit"

C17_Witness ==
    /\ Done(0)
    /\ FreshHit(0)
    /\ frame[0].zb.st = "settled"
    /\ frame[0].zb.value.status = "invalid"
    /\ Truthy(frame[0].zb.value.suggestedEmail)
    /\ frame[0].result.status = "valid"

\* C18: when the cache lookup found a record within the freshness window,
\* validateEmail returns at the instant the lookup answered, although the
\* oracle check has not ended
C18_FreshHitDoesNotWait ==
    \A d \in Frames :
        Done(d) /\ FreshHit(d) => frame[d].returnedAt = frame[d].known.settledAt

\* the activation has gone past the await of line 1438
PastJoin(d) ==
    \/ frame[d].pc \in {"recursing", "saving"}
    \/ Done(d) /\ frame[d].path \notin {"bad_format", "invalid_domain"}

\* C19: an activation that passes the two early returns starts the cache
\* lookup and the oracle check (unless skipZeroBounce) in one step, before
\* either has ended, and goes past the join only when the lookup has settled
\* and the oracle check has settled too, or when its deadline ended the wait
C19_FanOutJoin ==
    \A d \in Frames :
        /\ (frame[d].known.st = "none") <=> (frame[d].zb.st = "none")
        /\ frame[d].pc = "pending" =>
               /\ frame[d].known.st \in {"wait", "settled"}
               /\ frame[d].zb.st = "skipped" <=> frame[d].skipZeroBounce
        /\ PastJoin(d) =>
               \/ frame[d].path = "timeout_fallback"
               \/ /\ frame[d].known.st = "settled"
                  /\ frame[d].zb.st \in {"settled", "skipped"}
                  /\ frame[d].zb.st = "skipped" <=> frame[d].skipZeroBounce

C19_Witness ==
    /\ Done(0)
    /\ frame[0].path = "merged"
    /\ frame[0].zb.st = "settled"
    /\ frame[0].zb.attempts > 0
    /\ frame[0].known.settledAt < frame[0].returnedAt

\* the activation whose verdict the top-level call returns: the recursive
\* one when its result was adopted (lines 1551-1572)
Terminal == IF frame[0].path = "suggestion" THEN 1 ELSE 0

ReturnsValid == Done(0) /\ supabaseEnabled /\ frame[0].result.status = "valid"

\* saveValidationResult was called once in this validation, by the terminal
\* activation, and had returned when validateEmail returned
SavedOnceBeforeReturn ==
    /\ trace.save = 1
    /\ \A a \in Frames : sv[a].pc = "idle"
    /\ \E i \in DOMAIN saveLog :
          /\ saveLog[i].agent = Terminal
          /\ saveLog[i].email = frame[Terminal].email
          /\ saveLog[i].status = "valid"

\* C20 as stated: with persistence enabled, a top-level validateEmail that
\* returns status valid has called saveValidationResult exactly once and the
\* call had completed before the return
C20_PersistedBeforeReturn == ReturnsValid => SavedOnceBeforeReturn

\* C20 amended: the same, for every verdict that was not taken from a fresh
\* record of the cache; a verdict taken from the cache is returned without a
\* call of saveValidationResult
C20_PersistedUnlessCached ==
    ReturnsValid =>
        IF frame[Terminal].path = "cache_hit"
        THEN trace.save = 0 /\ \A a \in Frames : sv[a].pc = "idle"
        ELSE SavedOnceBeforeReturn

C20_Witness ==
    /\ ReturnsValid
    /\ frame[0].path = "merged"
    /\ SavedOnceBeforeReturn
    /\ \E i \in DOMAIN saveLog : saveLog[i].agent = 0 /\ saveLog[i].success

\* the result of lines 1443-1591 when neither early return nor suggestion
\* applies
MergedResult(f) ==
    IF f.zb.st = "settled"
    THEN withBounceCheck(withKnownValid(f.quickResult, f.known), f.zb.value)
    ELSE withKnownValid(f.quickResult, f.known)

SaveLoggedBy(d, success) ==
    \E i \in DOMAIN saveLog : saveLog[i].agent = d /\ saveLog[i].success = success

\* the fields of a result that make up the verdict
Verdict(r) ==
    <<r.status, r.subStatus, r.recheckNeeded, r.currentEmail>>

\* C21: when saveValidationResult has returned a failure to validateEmail
\* (store not connected, a failed lookup, contact insert, record insert or
\* update), validateEmail returns, and status, subStatus, recheckNeeded and
\* currentEmail of what it returns are those of the result that was handed
\* to the save, which on the merged path is the merged result whatever the
\* save will do
C21_SaveFailureKeepsVerdict ==
    [][\A d \in Frames :
          frame[d].pc = "saving" /\ sv[d].pc = "done" /\ ~sv[d].out.success
            /\ frame'[d].pc = "done" =>
              /\ Verdict(frame'[d].result) = Verdict(sv[d].result)
              /\ frame[d].path = "merged" =>
                     Verdict(frame'[d].result) = Verdict(MergedResult(frame[d]))]_vars

C21_Witness ==
    /\ Done(0)
    /\ frame[0].path = "merged"
    /\ SaveLoggedBy(0, FALSE)
    /\ supabaseConnectionStatus = "connected"
    /\ frame[0].result.status = "valid"

\* the steps quickValidate and validateEmail write (lines 1113, 1154, 1192,
\* 1470, 1489, 1532, 1554, 1588, 1623); none is about the save
StagesBeforeSave ==
    { "format_check", "typo_correction", "invalid_domain_check", "domain_check",
      "known_valid_check", "zerobounce_check", "zerobounce_suggestion" }

\* C22: when saveValidationResult was called by validateEmail and failed,
\* the validationSteps of the returned result hold a step for the save
C22_SaveFailureInSteps ==
    \A d \in Frames :
        Done(d) /\ frame[d].path = "merged" /\ SaveLoggedBy(d, FALSE) =>
            StepsNamed(frame[d].result) \ StagesBeforeSave # {}

\* C23: correctEmailTypos applied to the address it returned returns that
\* address again, whatever the alias setting and whichever table lookups
\* answer
C23_NormalizerIdempotent ==
    norm.pc \in {"twice", "quick"} => norm.twice.email = norm.once.email

\* the address with its letters lowered and outer whitespace removed
Cleaned(email) == ToLowerCase(Trim(email))

\* the address given differs from a well-formed address, which the
\* normaliser leaves as it is, only in letter case and outer whitespace
CaseOrSpaceOnly ==
    /\ Cleaned(norm.email) # norm.email
    /\ isValidEmailFormat(Cleaned(norm.email))
    /\ correctEmailTypos(Cleaned(norm.email), NormDb).email = Cleaned(norm.email)

\* C24: for an address that differs from a well-formed one only in letter
\* case and outer whitespace, quickValidate returns formatValid, the cleaned
\* address as currentEmail, and wasCorrected true
C24_CaseAndSpaceNormalized ==
    norm.pc = "quick" /\ CaseOrSpaceOnly =>
        /\ norm.quick.formatValid
        /\ norm.quick.currentEmail = Cleaned(norm.email)
        /\ norm.quick.wasCorrected

\* C25: in the result quickValidate returns, wasCorrected is true exactly
\* when currentEmail differs from originalEmail
C25_WasCorrectedIffChanged ==
    norm.pc = "quick" =>
        (norm.quick.wasCorrected <=> norm.quick.currentEmail # norm.quick.originalEmail)

\* C26: in every result validateEmail returns, recheckNeeded is true exactly
\* when the status is unknown or check_failed
C26_RecheckIffInconclusive ==
    \A d \in Frames :
        Done(d) =>
            (frame[d].result.recheckNeeded = TRUE
                <=> frame[d].result.status \in {"unknown", "check_failed"})

C26_Witness ==
    /\ Done(0)
    /\ frame[0].known.found
    /\ frame[0].path = "merged"
    /\ frame[0].quickResult.recheckNeeded
    /\ frame[0].zb.st = "settled"
    /\ frame[0].zb.value.status = "unknown"
    /\ frame[0].result.status = "valid"
    /\ frame[0].result.recheckNeeded = FALSE

\* C27: in a result of quickValidate with formatValid true, currentEmail
\* passes isValidEmailFormat
C27_CurrentEmailWellFormed ==
    norm.pc = "quick" /\ norm.quick.formatValid =>
        isValidEmailFormat(norm.quick.currentEmail)

\* results holds one result per address of emails, in the same order
SameOrder(results, emails) ==
    /\ Len(results) = Len(emails)
    /\ \A k \in DOMAIN emails : results[k].originalEmail = emails[k]

\* C28: the list validateBatch returns, and the list the handler answers
\* with, has one result for every address handed over, in the order of the
\* addresses
C28_BatchOrderKept ==
    batch.pc = "done" =>
        /\ SameOrder(batch.results, batch.emails)
        /\ batch.viaHandler => SameOrder(batch.response, batch.request)

\* C29: the timeoutMs handed to validateEmail for an item is the smaller of
\* timeoutPerEmailMs and the remaining time divided by the number of items
\* still to process
C29_SliceIsShareOfRemaining ==
    \A k \in DOMAIN batch.log :
        batch.log[k].full =>
            batch.log[k].timeoutMs =
                Min(batch.timeoutPerEmailMs, batch.log[k].remaining \div batch.log[k].left)

\* at the head of item k and of every item before it, the remaining time was
\* at least half of timeoutPerEmailMs
BudgetLeftUpTo(k) ==
    \A j \in 1..k :
        batch.log[j].observed => 2 * batch.log[j].remaining >= batch.timeoutPerEmailMs

StagesOfFullValidation == {"known_valid_check", "zerobounce_check", "zerobounce_suggestion"}

\* C30: an item is validated with validateEmail exactly when the remaining
\* time observed at its head, and at the head of every item before it, was
\* at least half of timeoutPerEmailMs; every other item gets the result of
\* quickValidate, and while those are processed no cache lookup, oracle
\* check or save is started
C30_DegradesBelowHalfSlice ==
    /\ \A k \in DOMAIN batch.log :
          /\ batch.log[k].full <=> BudgetLeftUpTo(k)
          /\ ~batch.log[k].full =>
                 /\ batch.log[k].invoked = IdleTrace
                 /\ k <= Len(batch.results) =>
                        StepsNamed(batch.results[k]) \cap StagesOfFullValidation = {}
          /\ batch.log[k].full /\ k <= Len(batch.results) =>
                 \/ batch.results[k].subStatus \in {"bad_format", "invalid_domain"}
                 \/ batch.log[k].invoked.cache >= 1
    /\ batch.pc = "quick" =>
          /\ \A d \in Frames : frame[d].pc = "idle"
          /\ \A a \in Agents : sv[a].pc = "idle"

C30_Witness ==
    /\ batch.pc = "done"
    /\ Len(batch.log) = 3
    /\ batch.log[1].full
    /\ batch.log[1].invoked.cache = 1
    /\ ~batch.log[2].full /\ batch.log[2].observed
    /\ ~batch.log[3].full /\ ~batch.log[3].observed

\* the status values of a ValidationResult
ResultStatuses == {"valid", "invalid", "unknown", "check_failed"}

\* some activation of validateEmail has been called and has not returned
Awaiting == \E d \in Frames : frame[d].pc \notin {"idle", "done"}

\* C31: validateEmail never rejects: whatever the lookups, the cache, the
\* oracle and the save did, an activation that has returned has returned a
\* result with a status and a recheckNeeded flag, and one that has not
\* returned is never left with nothing to wait for
C31_NeverFailsHard ==
    /\ \A d \in Frames :
           Done(d) =>
               /\ frame[d].result.status \in ResultStatuses
               /\ frame[d].result.recheckNeeded \in BOOLEAN
    /\ Awaiting => Runnable \/ AllDue # {}

C31_Witness ==
    /\ Done(0)
    /\ supabaseEnabled /\ supabase
    /\ supabaseConnectionStatus = "failed"
    /\ CacheUnavailable(0)
    /\ frame[0].zb.st = "settled"
    /\ frame[0].zb.value.status = "check_failed"
    /\ frame[0].result.status = "unknown"

\* C32: the deadline of the recursive re-validation of a suggested address,
\* counted from the moment its timer starts, ends no later than the deadline
\* of the call that made it
C32_RecursiveDeadlineWithinOuter ==
    \A d \in Frames \ {MaxDepth} :
        frame[d].pc = "recursing" /\ frame[d + 1].deadlineAt # NoTimer =>
            frame[d + 1].deadlineAt <= frame[d].deadlineAt

\* C33: any two distinct attempts are given different um_check_id values,
\* among them two attempts of one client at the same clock reading and
\* attempts whose clock readings differ by 10^6 ms
C33_CheckIdUnique ==
    \A i, j \in DOMAIN ident.attempts :
        i # j => ident.attempts[i].um_check_id # ident.attempts[j].um_check_id

\* C34: when validateEmail has stored a result, the key it stored it under
\* is the key its cache lookup used (line 1440), and a record with that key
\* exists
C34_WriteKeyIsLookupKey ==
    \A d \in Frames :
        frame[d].pc = "saving" /\ sv[d].pc = "done" /\ sv[d].out.success =>
            /\ sv[d].email = frame[d].quickResult.currentEmail
            /\ rowsByEmail(frame[d].quickResult.currentEmail) # {}

\* status, subStatus and recheckNeeded of a result
Outcome(r) == <<r.status, r.subStatus, r.recheckNeeded>>

\* C35: when the oracle's result is unknown, check_failed or check_skipped
\* and carries no suggestion, validateEmail returns the status, subStatus and
\* recheckNeeded computed before that result was merged, from quickValidate
\* and the cache lookup; an oracle status of valid or invalid replaces them
C35_InconclusiveOracleKeepsVerdict ==
    \A d \in Frames :
        Done(d) /\ frame[d].path = "merged" /\ frame[d].zb.st = "settled"
          /\ ~Truthy(frame[d].zb.value.suggestedEmail) =>
            IF frame[d].zb.value.status \in {"unknown", "check_failed", "check_skipped"}
            THEN Outcome(frame[d].result) =
                     Outcome(withKnownValid(frame[d].quickResult, frame[d].known))
            ELSE /\ frame[d].zb.value.status \in {"valid", "invalid"}
                 /\ Outcome(frame[d].result) = Outcome(frame[d].zb.value)

C35_Witness ==
    /\ Done(0)
    /\ frame[0].path = "merged"
    /\ frame[0].known.found
    /\ frame[0].zb.st = "settled"
    /\ frame[0].zb.value.status = "unknown"
    /\ ~Truthy(frame[0].zb.value.suggestedEmail)
    /\ frame[0].result.status = "valid"

\* C36: when the oracle suggests an address whose domain the classifier
\* answers "denylisted" for, on a call that is no re-validation and has no
\* fresh cached record, validateEmail returns status invalid, subStatus
\* invalid_domain, recheckNeeded false for the caller's address, whatever
\* status the oracle gave it, and starts neither a re-validation nor a save
C36_DenylistedSuggestion ==
    Done(0) /\ frame[0].path = "suggestion_rejected" =>
        /\ Suggested(0)
        /\ DomainOf(frame[0].zb.value.suggestedEmail) \in invalid_domains
        /\ ~frame[0].isRetry
        /\ ~isFresh(frame[0].known, frame[0].returnedAt)
        /\ frame[0].result.status = "invalid"
        /\ frame[0].result.subStatus = "invalid_domain"
        /\ frame[0].result.recheckNeeded = FALSE
        /\ frame[0].result.originalEmail = frame[0].email
        /\ frame[1].pc = "idle"
        /\ trace.recursions = 0
        /\ sv[0].pc = "idle"
        /\ trace.save = 0

C36_Witness ==
    /\ Done(0)
    /\ frame[0].path = "suggestion_rejected"
    /\ frame[0].zb.value.status = "valid"
    /\ frame[0].zb.value.suggestedEmail = "info@bad.com"
    /\ frame[0].result.status = "invalid"

\* no call of saveValidationResult is between two of its requests
NoSaveUnderWay == \A a \in Agents : sv[a].pc \in {"idle", "done"}

\* C37: a call of saveValidationResult that returned success = false has
\* left the tables as they were: once no save is under way, every row of
\* contacts is referenced by a row of email_validations
C37_FailedSaveLeavesNoOrphan ==
    NoSaveUnderWay =>
        \A c \in contacts : \E r \in email_validations : r.contact_id = c

\* a connection test some caller awaits
TestUnderWay == \E a \in Agents : sv[a].pc = "conntest"

\* the status after a test that did not connect
TestFailed == supabaseConnectionStatus \in {"failed", "error"}

Served(clientId, day) ==
    {r \in RequestIds :
        /\ requests[r].clientId = clientId
        /\ requests[r].day = day
        /\ \/ requests[r].pc = "validating"
           \/ requests[r].pc = "responded" /\ requests[r].status = 200}

\* C39: for each client and each day, the requests that passed
\* checkEmailRateLimit and are served are no more than the client's
\* dailyEmailLimit, and emailCount is never above the limit
C39_DailyLimitHolds ==
    \A c \in LimitedClients :
        /\ clientManager.clientsUsage[c].emailCount <= dailyEmailLimit(c)
        /\ \A day \in 1..MaxDays : Cardinality(Served(c, day)) <= dailyEmailLimit(c)

====
